---- MODULE Spec2Model ----
(***************************************************************************)
(* Local game of the v2.7 client (second ChessGame class of                *)
(* src/unnamed/part_002): board, rule engine, ability-card registry and    *)
(* the click / promotion handlers.                                         *)
(*                                                                         *)
(* A piece object {color, type, moved} is a record that also carries an    *)
(* id: the id stands for the JavaScript object identity, which the code    *)
(* relies on (pendingPromotion.piece is a reference to the object that a   *)
(* board cell holds).  A board cell without a piece holds NoPiece (null),  *)
(* and a read outside 0..7 yields NoPiece too (undefined is falsy).        *)
(*                                                                         *)
(* validMoves / validAttacks are read by the code through some(...) only,  *)
(* so they are kept as sets of squares.                                    *)
(***************************************************************************)
EXTENDS Integers, Sequences, FiniteSets, TLC

Colors == {"white", "black"}
PieceTypes == {"pawn", "rook", "knight", "bishop", "queen", "king"}
Coord == 0..7
Squares == Coord \X Coord

NoPiece == [id |-> 0, color |-> "none", type |-> "none", moved |-> FALSE]
\* null, for each kind of field that can hold it
NoSquare == <<-1, -1>>
NoMove == [from |-> NoSquare, to |-> NoSquare]
NoPromotion == [x |-> -1, y |-> -1, piece |-> 0, color |-> "none", from |-> NoSquare, captured |-> NoPiece]
NoMessage == [winner |-> "", reason |-> ""]

OnBoard(x, y) == x >= 0 /\ x <= 7 /\ y >= 0 /\ y <= 7

\* this.board[x][y] for x in 0..7: a piece, null, or undefined beyond the row
Get(b, x, y) == IF OnBoard(x, y) THEN b[<<x, y>>] ELSE NoPiece

Other(color) == IF color = "white" THEN "black" ELSE "white"

backRank == <<"rook", "knight", "bishop", "queen", "king", "bishop", "knight", "rook">>

getInitialBoard ==
  [s \in Squares |->
     LET x == s[1]
         y == s[2]
     IN  CASE y = 0 -> [id |-> 1 + x, color |-> "black", type |-> backRank[x + 1], moved |-> FALSE]
           [] y = 1 -> [id |-> 9 + x, color |-> "black", type |-> "pawn", moved |-> FALSE]
           [] y = 6 -> [id |-> 17 + x, color |-> "white", type |-> "pawn", moved |-> FALSE]
           [] y = 7 -> [id |-> 25 + x, color |-> "white", type |-> backRank[x + 1], moved |-> FALSE]
           [] OTHER -> NoPiece]

(***************************************************************************)
(* Standard geometry                                                       *)
(***************************************************************************)
rookDirs == {<<0, 1>>, <<0, -1>>, <<1, 0>>, <<-1, 0>>}
bishopDirs == {<<1, 1>>, <<1, -1>>, <<-1, 1>>, <<-1, -1>>}
queenDirs == rookDirs \cup bishopDirs
knightJumps == {<<-2, -1>>, <<-2, 1>>, <<-1, -2>>, <<-1, 2>>, <<1, -2>>, <<1, 2>>, <<2, -1>>, <<2, 1>>}

\* the ray loop without its break: addMove is called on every square of the
\* ray that is on the board
rayThroughPieces(b, x, y, d) ==
  {<<x + d[1] * i, y + d[2] * i>> : i \in {k \in 1..7 : OnBoard(x + d[1] * k, y + d[2] * k)}}

\* the squares on which addMove is called along one ray: the loop stops
\* after the first call that returns false (off the board, or occupied)
rayVisited(b, x, y, d) ==
  {<<x + d[1] * i, y + d[2] * i>> : i \in
     {k \in 1..7 : /\ OnBoard(x + d[1] * k, y + d[2] * k)
                   /\ \A j \in 1..(k - 1) : b[<<x + d[1] * j, y + d[2] * j>>] = NoPiece}}

\* the squares on which addMove is called for a piece type other than pawn
addMoveCalls(b, x, y, type) ==
  CASE type = "rook" -> UNION {rayVisited(b, x, y, d) : d \in rookDirs}
    [] type = "bishop" -> UNION {rayVisited(b, x, y, d) : d \in bishopDirs}
    [] type = "queen" -> UNION {rayVisited(b, x, y, d) : d \in queenDirs}
    [] type = "knight" -> {<<x + d[1], y + d[2]>> : d \in knightJumps}
    [] type = "king" -> {<<x + d[1], y + d[2]>> : d \in queenDirs}
    [] OTHER -> {}

\* addMove: off-board squares are dropped, an empty square is a move, a
\* square holding the other colour is an attack
addMoveMoves(b, calls) == {s \in calls : OnBoard(s[1], s[2]) /\ b[s] = NoPiece}
addMoveAttacks(b, calls, color) ==
  {s \in calls : OnBoard(s[1], s[2]) /\ b[s] # NoPiece /\ b[s].color # color}

pawnDir(color) == IF color = "white" THEN -1 ELSE 1

\* the pawn pushes: the target is read without a bounds check
pawnPushes(b, x, y, piece) ==
  LET dir == pawnDir(piece.color)
  IN  IF Get(b, x, y + dir) = NoPiece
      THEN {<<x, y + dir>>} \cup
           (IF ~piece.moved /\ Get(b, x, y + 2 * dir) = NoPiece THEN {<<x, y + 2 * dir>>} ELSE {})
      ELSE {}

\* the pawn captures: bounds-checked, enemy-occupied only
pawnCaptures(b, x, y, piece) ==
  LET dir == pawnDir(piece.color)
  IN  {s \in {<<x - 1, y + dir>>, <<x + 1, y + dir>>} :
         OnBoard(s[1], s[2]) /\ b[s] # NoPiece /\ b[s].color # piece.color}

getPieceMoves(b, x, y) ==
  LET piece == b[<<x, y>>]
  IN  IF piece = NoPiece THEN [moves |-> {}, attacks |-> {}]
      ELSE IF piece.type = "pawn"
      THEN [moves |-> pawnPushes(b, x, y, piece), attacks |-> pawnCaptures(b, x, y, piece)]
      ELSE LET calls == addMoveCalls(b, x, y, piece.type)
           IN  [moves |-> addMoveMoves(b, calls), attacks |-> addMoveAttacks(b, calls, piece.color)]

\* scan order of the two nested loops: x outer, y inner
scanIndex(s) == 8 * s[1] + s[2]

isInCheck(b, color) ==
  LET kings == {s \in Squares : b[s].type = "king" /\ b[s].color = color}
  IN  IF kings = {} THEN FALSE
      ELSE LET kingPos == CHOOSE s \in kings : \A t \in kings : scanIndex(s) <= scanIndex(t)
           IN  \E s \in Squares :
                  /\ b[s] # NoPiece
                  /\ b[s].color = Other(color)
                  /\ kingPos \in getPieceMoves(b, s[1], s[2]).attacks

\* the board during a simulated move: the source cell is cleared and the
\* piece is written to the target; a target outside 0..7 (a pawn push from
\* an edge rank) is a property no scan reads
simulate(b, from, to) ==
  IF OnBoard(to[1], to[2]) THEN [b EXCEPT ![from] = NoPiece, ![to] = b[from]]
  ELSE [b EXCEPT ![from] = NoPiece]

hasValidMoves(b, color) ==
  \E s \in Squares :
     /\ b[s] # NoPiece
     /\ b[s].color = color
     /\ LET pm == getPieceMoves(b, s[1], s[2])
        IN  \E m \in pm.moves \cup pm.attacks : ~isInCheck(simulate(b, s, m), color)

isCheckmate(b, color) == isInCheck(b, color) /\ ~hasValidMoves(b, color)

\* isStalemate without its isInCheck conjunct
isStalemateIgnoringCheck(b, color) == ~hasValidMoves(b, color)

isStalemate(b, color) == ~isInCheck(b, color) /\ ~hasValidMoves(b, color)

(***************************************************************************)
(* Ability-card registry.  customMoves[color] is an object keyed by piece  *)
(* type (a function on the types that have an entry); abilityCards[color]  *)
(* is an object keyed by card name, kept as the sequence of its entries in *)
(* insertion order (the order Object.entries yields).                      *)
(***************************************************************************)
Range(seq) == {seq[i] : i \in 1..Len(seq)}

emptyCustomMoves == [c \in Colors |-> <<>>]
emptyAbilityCards == [c \in Colors |-> <<>>]

\* every offset of adds pushed, whether it is there or not
pushAll(existing, adds) == existing \o adds

\* existing.some(...) || existing.push(...) for each offset of adds, in order
pushNew(existing, adds) ==
  LET keep == {i \in 1..Len(adds) : /\ adds[i] \notin Range(existing)
                                     /\ \A j \in 1..(i - 1) : adds[j] # adds[i]}
      nth(k) == CHOOSE i \in keep : Cardinality({j \in keep : j < i}) = k - 1
  IN  existing \o [k \in 1..Cardinality(keep) |-> adds[nth(k)]]

\* list.filter(m => !(m equals offset)) for each offset of removed
filterOut(list, removed) == SelectSeq(list, LAMBDA m : m \notin Range(removed))

cardIndex(cards, name) ==
  IF \E i \in 1..Len(cards) : cards[i].name = name
  THEN CHOOSE i \in 1..Len(cards) : cards[i].name = name
  ELSE 0

\* customMoves[color][pieceType] with both lists united with the given ones;
\* the entry is created when missing
withEntry(table, pieceType, moves, attacks) ==
  LET old == IF pieceType \in DOMAIN table THEN table[pieceType] ELSE [moves |-> <<>>, attacks |-> <<>>]
      new == [moves |-> pushNew(old.moves, moves), attacks |-> pushNew(old.attacks, attacks)]
  IN  [t \in (DOMAIN table) \cup {pieceType} |-> IF t = pieceType THEN new ELSE table[t]]

saveCard(g, color, name, pieceType, moves, attacks) ==
  LET cards == g.abilityCards[color]
      card == [name |-> name, pieceType |-> pieceType, moves |-> moves, attacks |-> attacks,
               enabled |-> "undefined"]
      i == cardIndex(cards, name)
      cards2 == IF i = 0 THEN Append(cards, card) ELSE [cards EXCEPT ![i] = card]
  IN  [g EXCEPT !.abilityCards[color] = cards2,
                !.customMoves[color] = withEntry(g.customMoves[color], pieceType, moves, attacks)]

RECURSIVE rebuildColor(_, _)
rebuildColor(table, cards) ==
  IF cards = <<>> THEN table
  ELSE LET data == Head(cards)
       IN  IF data.enabled = "false" THEN rebuildColor(table, Tail(cards))
           ELSE rebuildColor(withEntry(table, data.pieceType, data.moves, data.attacks), Tail(cards))

rebuildCustomMoves(g) ==
  [g EXCEPT !.customMoves = [c \in Colors |-> rebuildColor(<<>>, g.abilityCards[c])]]

toggleCard(g, color, name) ==
  LET cards == g.abilityCards[color]
      i == cardIndex(cards, name)
  IN  IF i = 0 THEN g
      ELSE LET e == IF cards[i].enabled \in {"true", "undefined"} THEN "false" ELSE "true"
           IN  rebuildCustomMoves([g EXCEPT !.abilityCards[color][i].enabled = e])

deleteCard(g, color, name) ==
  LET cards == g.abilityCards[color]
      i == cardIndex(cards, name)
      table == g.customMoves[color]
      table2 == IF i # 0 /\ cards[i].pieceType \in DOMAIN table
                THEN [table EXCEPT ![cards[i].pieceType] =
                        [moves |-> filterOut(@.moves, cards[i].moves),
                         attacks |-> filterOut(@.attacks, cards[i].attacks)]]
                ELSE table
      cards2 == IF i = 0 THEN cards ELSE SubSeq(cards, 1, i - 1) \o SubSeq(cards, i + 1, Len(cards))
  IN  [g EXCEPT !.customMoves[color] = table2, !.abilityCards[color] = cards2]

resetCustomMoves(g) ==
  [g EXCEPT !.customMoves = emptyCustomMoves, !.abilityCards = emptyAbilityCards]

(***************************************************************************)
(* Move generation for the selected piece                                  *)
(***************************************************************************)
\* the targets x + dx, y + dy of a list of offsets that are on the board
offsetTargets(x, y, offsets) ==
  {s \in {<<x + d[1], y + d[2]>> : d \in Range(offsets)} : OnBoard(s[1], s[2])}

\* the standard part of calculateValidMoves (the pawn pushes are unchecked,
\* addAttack is bounds-checked)
standardValid(b, x, y) == getPieceMoves(b, x, y)

\* calculateValidMoves with a custom move offset that lands on an enemy
\* piece turned into an attack
reclassifyingValidMoves(b, customMoves, x, y) ==
  LET piece == b[<<x, y>>]
      std == standardValid(b, x, y)
      table == customMoves[piece.color]
      has == piece.type \in DOMAIN table
      cm == IF has THEN {s \in offsetTargets(x, y, table[piece.type].moves) : b[s] = NoPiece} ELSE {}
      ca == IF has
            THEN {s \in offsetTargets(x, y, table[piece.type].attacks \o table[piece.type].moves) :
                    b[s] # NoPiece /\ b[s].color # piece.color}
            ELSE {}
  IN  [moves |-> std.moves \cup cm, attacks |-> std.attacks \cup ca]

\* [validMoves, validAttacks] as calculateValidMoves leaves them
calculateValidMoves(b, customMoves, x, y) ==
  LET piece == b[<<x, y>>]
      std == standardValid(b, x, y)
      table == customMoves[piece.color]
      has == piece.type \in DOMAIN table
      cm == IF has THEN {s \in offsetTargets(x, y, table[piece.type].moves) : b[s] = NoPiece} ELSE {}
      ca == IF has
            THEN {s \in offsetTargets(x, y, table[piece.type].attacks) :
                    b[s] # NoPiece /\ b[s].color # piece.color}
            ELSE {}
  IN  [moves |-> std.moves \cup cm, attacks |-> std.attacks \cup ca]

\* filterMovesInCheck keeping every candidate
keepAllCandidates(b, sel, cand) == cand

\* filterMovesInCheck applied to candidate sets of the piece on sel
filterMovesInCheck(b, sel, cand) ==
  LET piece == b[sel]
  IN  IF piece = NoPiece THEN cand
      ELSE [moves |-> {m \in cand.moves : ~isInCheck(simulate(b, sel, m), piece.color)},
            attacks |-> {a \in cand.attacks : ~isInCheck(simulate(b, sel, a), piece.color)}]

\* the restore that puts the piece back and leaves the target as written
restoreSourceOnly(b, from, to, piece, originalPiece) == [b EXCEPT ![from] = piece]

\* the two writes that end a simulated move: the piece goes back to its
\* cell, then the target cell gets what it held (a target outside 0..7 is
\* a property no scan reads)
restore(b, from, to, piece, originalPiece) ==
  LET b1 == [b EXCEPT ![from] = piece]
  IN  IF OnBoard(to[1], to[2]) THEN [b1 EXCEPT ![to] = originalPiece] ELSE b1

\* the board after the loop body has run for each target of a piece: the
\* target is read, the move is written, isInCheck reads, the move is undone
RECURSIVE simulatedAll(_, _, _)
simulatedAll(b, from, targets) ==
  IF targets = {} THEN b
  ELSE LET to == CHOOSE t \in targets : TRUE
           originalPiece == Get(b, to[1], to[2])
       IN  simulatedAll(restore(simulate(b, from, to), from, to, b[from], originalPiece),
                        from, targets \ {to})

\* this.board when filterMovesInCheck returns
boardAfterFilter(b, sel, cand) ==
  IF b[sel] = NoPiece THEN b
  ELSE simulatedAll(simulatedAll(b, sel, cand.moves), sel, cand.attacks)

\* this.board when hasValidMoves returns: the pieces of the colour are taken
\* in scan order, each on the board the pieces before it left; the loop over
\* a piece's targets stops at its first legal one, the targets it would have
\* tried after that are simulated here as well
RECURSIVE boardAfterHasValidMoves(_, _, _)
boardAfterHasValidMoves(b, color, from) ==
  LET own == {s \in Squares : scanIndex(s) >= from /\ b[s] # NoPiece /\ b[s].color = color}
  IN  IF own = {} THEN b
      ELSE LET s == CHOOSE t \in own : \A u \in own : scanIndex(t) <= scanIndex(u)
               pm == getPieceMoves(b, s[1], s[2])
               b2 == simulatedAll(b, s, pm.moves \cup pm.attacks)
           IN  IF \E m \in pm.moves \cup pm.attacks : ~isInCheck(simulate(b, s, m), color)
               THEN b2
               ELSE boardAfterHasValidMoves(b2, color, scanIndex(s) + 1)

(***************************************************************************)
(* Game state: the fields of the ChessGame object and the three DOM facts  *)
(* the handlers write (game-over dialog, promotion dialog, status line)    *)
(***************************************************************************)
files == <<"a", "b", "c", "d", "e", "f", "g", "h">>

pieceSymbol(type) ==
  CASE type = "king" -> "K"
    [] type = "queen" -> "Q"
    [] type = "rook" -> "R"
    [] type = "bishop" -> "B"
    [] type = "knight" -> "N"
    [] OTHER -> ""

squareName(s) == files[s[1] + 1] \o ToString(8 - s[2])

addMoveToHistory(g, from, to, type, color, captured) ==
  LET notation == pieceSymbol(type) \o squareName(from)
                    \o (IF captured # NoPiece THEN "x" ELSE "-") \o squareName(to)
      h == g.moveHistory
  IN  IF color = "white"
      THEN [g EXCEPT !.moveHistory = Append(h, [number |-> Len(h) + 1, white |-> notation, black |-> ""])]
      ELSE IF Len(h) > 0 THEN [g EXCEPT !.moveHistory[Len(h)].black = notation]
      ELSE g

recordResult(g, result) ==
  [g EXCEPT !.stats = [total |-> @.total + 1,
                       white |-> @.white + (IF result = "white" THEN 1 ELSE 0),
                       black |-> @.black + (IF result = "black" THEN 1 ELSE 0),
                       draws |-> @.draws + (IF result \notin Colors THEN 1 ELSE 0)]]

\* stopTimer with the interval left running
leaveTimer(g) == g

\* clearInterval without effect on the interval
keepInterval(g) == g

\* clearInterval(this.timerInterval) on a handle that is not null: the
\* interval it names is cancelled if it is still active
clearInterval(g) ==
  IF g.timerLive THEN [g EXCEPT !.timerLive = FALSE, !.activeIntervals = @ - 1] ELSE g

stopTimer(g) == IF g.timerInterval THEN [clearInterval(g) EXCEPT !.timerInterval = FALSE] ELSE g

\* startTimer without the clearInterval of the previous handle
startTimerLeaking(g) ==
  [g EXCEPT !.timerInterval = TRUE, !.timerLive = TRUE, !.activeIntervals = @ + 1]

\* startTimer: the previous interval is cancelled, a new one is created and
\* its handle kept (the callback is tick below)
startTimer(g) ==
  LET g1 == IF g.timerInterval THEN clearInterval(g) ELSE g
  IN  [g1 EXCEPT !.timerInterval = TRUE, !.timerLive = TRUE, !.activeIntervals = @ + 1]

showGameOver(g, winner, reason) ==
  [stopTimer(g) EXCEPT !.gameOverModal = TRUE, !.gameOverMessage = [winner |-> winner, reason |-> reason]]

\* the winner shown in the dialog (the Russian names of the two colours)
winnerName(color) == IF color = "white" THEN "white" ELSE "black"

\* the cascade with a mate credited to the mated colour
afterMoveCreditingLoser(g, testedColor, winColor) ==
  IF isCheckmate(g.board, testedColor)
  THEN showGameOver(recordResult(g, testedColor), winnerName(testedColor), "checkmate")
  ELSE IF isStalemate(g.board, testedColor)
  THEN showGameOver(recordResult(g, "draw"), "draw", "stalemate")
  ELSE IF isInCheck(g.board, testedColor)
  THEN [g EXCEPT !.status = "check"]
  ELSE [g EXCEPT !.status = "local game"]

\* the check / mate / stalemate cascade both handlers run for testedColor,
\* crediting winColor on mate
afterMove(g, testedColor, winColor) ==
  IF isCheckmate(g.board, testedColor)
  THEN showGameOver(recordResult(g, winColor), winnerName(winColor), "checkmate")
  ELSE IF isStalemate(g.board, testedColor)
  THEN showGameOver(recordResult(g, "draw"), "draw", "stalemate")
  ELSE IF isInCheck(g.board, testedColor)
  THEN [g EXCEPT !.status = "check"]
  ELSE [g EXCEPT !.status = "local game"]

deselectPiece(g) == [g EXCEPT !.selectedPiece = NoSquare, !.validMoves = {}, !.validAttacks = {}]

\* the selection branch taking a piece of either colour
selectAnyPiece(g, x, y) ==
  LET clickedPiece == g.board[<<x, y>>]
  IN  IF clickedPiece # NoPiece
      THEN LET f == filterMovesInCheck(g.board, <<x, y>>,
                                       calculateValidMoves(g.board, g.customMoves, x, y))
           IN  [g EXCEPT !.selectedPiece = <<x, y>>, !.validMoves = f.moves, !.validAttacks = f.attacks]
      ELSE deselectPiece(g)

\* lines 2853-2862: select a piece of the side to move, or deselect
selectOrDeselect(g, x, y) ==
  LET clickedPiece == g.board[<<x, y>>]
  IN  IF clickedPiece # NoPiece /\ clickedPiece.color = g.currentPlayer
      THEN LET f == filterMovesInCheck(g.board, <<x, y>>,
                                       calculateValidMoves(g.board, g.customMoves, x, y))
           IN  [g EXCEPT !.selectedPiece = <<x, y>>, !.validMoves = f.moves, !.validAttacks = f.attacks]
      ELSE deselectPiece(g)

needsPromotion(piece, y) == piece.type = "pawn" /\ (y = 0 \/ y = 7)

\* the relocation with the moved flag left as it was
relocateKeepingFlag(g, x, y) ==
  LET sel == g.selectedPiece
  IN  [g EXCEPT !.board = [@ EXCEPT ![sel] = NoPiece, ![<<x, y>>] = g.board[sel]],
                !.lastMove = [from |-> sel, to |-> <<x, y>>]]

\* lines 2810-2815: the three board writes of a commit, then lastMove
relocate(g, x, y) ==
  LET sel == g.selectedPiece
      piece == g.board[sel]
  IN  [g EXCEPT !.board = [@ EXCEPT ![sel] = NoPiece, ![<<x, y>>] = [piece EXCEPT !.moved = TRUE]],
                !.lastMove = [from |-> sel, to |-> <<x, y>>]]

\* lines 2798-2850 with a piece on the selected square
commitMove(g, x, y) ==
  LET sel == g.selectedPiece
      piece == g.board[sel]
      captured == g.board[<<x, y>>]
      g2 == relocate(g, x, y)
  IN  IF captured # NoPiece /\ captured.type = "king"
      THEN showGameOver(recordResult(g, piece.color), winnerName(piece.color), "king captured")
      ELSE IF needsPromotion(piece, y)
      THEN [g2 EXCEPT !.pendingPromotion = [x |-> x, y |-> y, piece |-> piece.id, color |-> piece.color,
                                            from |-> sel, captured |-> captured],
                      !.promotionModal = TRUE]
      ELSE LET g3 == addMoveToHistory(g2, sel, <<x, y>>, piece.type, piece.color, captured)
               g4 == [g3 EXCEPT !.selectedPiece = NoSquare, !.validMoves = {}, !.validAttacks = {},
                                !.currentPlayer = Other(g.currentPlayer)]
           IN  afterMove(g4, g4.currentPlayer, piece.color)

\* the null-piece commit with the king test after the board writes
commitNullUnguarded(g, x, y) == [g EXCEPT !.board[<<x, y>>] = NoPiece]

\* lines 2798-2812 when the selected square holds no piece (piece is null):
\* piece.color or piece.moved throws a TypeError and the handler stops there
commitNull(g, x, y) ==
  LET captured == g.board[<<x, y>>]
  IN  IF captured # NoPiece /\ captured.type = "king"
      THEN g
      ELSE [g EXCEPT !.board[<<x, y>>] = NoPiece]

handleLocalClick(g, x, y) ==
  IF g.selectedPiece # NoSquare /\ (<<x, y>> \in g.validMoves \/ <<x, y>> \in g.validAttacks)
  THEN IF g.board[g.selectedPiece] # NoPiece THEN commitMove(g, x, y) ELSE commitNull(g, x, y)
  ELSE selectOrDeselect(g, x, y)

\* handleLocalClick of frontend-v2.5 (game.js 1240-1278): the commit writes
\* the board, turns a pawn on rank 0 or 7 into a queen, and hands the turn
\* over; the selection takes what calculateValidMoves (1281-1347, the standard
\* and the custom targets as in calculateValidMoves above) has found
handleLocalClickV25(g, x, y) ==
  LET sel == g.selectedPiece
      clickedPiece == g.board[<<x, y>>]
  IN  IF sel # NoSquare /\ (<<x, y>> \in g.validMoves \/ <<x, y>> \in g.validAttacks)
      THEN IF g.board[sel] = NoPiece
           THEN [g EXCEPT !.board[<<x, y>>] = NoPiece]
           ELSE LET piece == g.board[sel]
                    type == IF needsPromotion(piece, y) THEN "queen" ELSE piece.type
                    g2 == [relocate(g, x, y) EXCEPT !.board[<<x, y>>].type = type]
                    g3 == addMoveToHistory(g2, sel, <<x, y>>, type, piece.color, clickedPiece)
                IN  [deselectPiece(g3) EXCEPT !.currentPlayer = Other(g.currentPlayer)]
      ELSE IF clickedPiece # NoPiece /\ clickedPiece.color = g.currentPlayer
      THEN LET cv == calculateValidMoves(g.board, g.customMoves, x, y)
           IN  [g EXCEPT !.selectedPiece = <<x, y>>, !.validMoves = cv.moves, !.validAttacks = cv.attacks]
      ELSE deselectPiece(g)

selectPromotion(g, pieceType) ==
  IF g.pendingPromotion = NoPromotion THEN g
  ELSE LET pp == g.pendingPromotion
           b2 == [s \in Squares |-> IF g.board[s].id = pp.piece
                                    THEN [g.board[s] EXCEPT !.type = pieceType]
                                    ELSE g.board[s]]
           g2 == addMoveToHistory([g EXCEPT !.board = b2], pp.from, <<pp.x, pp.y>>,
                                  pieceType, pp.color, pp.captured)
           opponentColor == g.currentPlayer
           g3 == [g2 EXCEPT !.promotionModal = FALSE, !.pendingPromotion = NoPromotion,
                            !.currentPlayer = Other(g.currentPlayer)]
           g4 == afterMove(g3, opponentColor, pp.color)
       IN  [g4 EXCEPT !.selectedPiece = NoSquare, !.validMoves = {}, !.validAttacks = {}]

\* the connection indicator (lines 1913-1925)
updateConnectionStatus(g, connected) ==
  [g EXCEPT !.connectionText = IF connected THEN "connected"
                               ELSE IF g.isReconnecting THEN "reconnecting" ELSE "disconnected"]

startLocalGame(g) ==
  LET g1 == [g EXCEPT !.isLocalGame = TRUE, !.myColor = "white", !.currentPlayer = "white",
                      !.board = getInitialBoard, !.timers = [white |-> 600, black |-> 600],
                      !.lastMove = NoMove, !.moveHistory = <<>>]
      g2 == [startTimer(g1) EXCEPT !.selectedPiece = NoSquare, !.validMoves = {}, !.validAttacks = {},
                                   !.status = "local game"]
  IN  [updateConnectionStatus(g2, TRUE) EXCEPT !.screen = "game-screen"]

\* the callback of the interval startTimer creates, run once
tickWithoutVerdict(g) ==
  LET cur == g.currentPlayer
  IN  IF g.timers[cur] > 0 THEN [g EXCEPT !.timers[cur] = @ - 1] ELSE g

\* the callback of the interval startTimer creates (lines 2705-2713)
tick(g) ==
  LET cur == g.currentPlayer
  IN  IF g.timers[cur] > 0
      THEN LET g1 == [g EXCEPT !.timers[cur] = @ - 1]
           IN  IF g1.timers[cur] = 0
               THEN showGameOver(clearInterval(g1), winnerName(Other(cur)), "time out")
               ELSE g1
      ELSE g

\* the callback run n times in a row
RECURSIVE ticks(_, _)
ticks(g, n) ==
  IF n = 0 THEN g
  ELSE IF n = 1 THEN tick(g)
  ELSE LET half == ticks(g, n \div 2)
       IN  IF half.isLocalGame THEN ticks(half, n - (n \div 2)) ELSE half

\* applyTime with the two minute fields of the developer panel
applyTime(g, whiteTime, blackTime) ==
  [g EXCEPT !.timers = [white |-> whiteTime * 60, black |-> blackTime * 60]]

\* requestUndo: a local game drops the last two entries of the move list
\* when it has at least two (the online branch only sends a request)
requestUndo(g) ==
  IF g.isLocalGame /\ Len(g.moveHistory) >= 2
  THEN [g EXCEPT !.moveHistory = SubSeq(@, 1, Len(@) - 2)]
  ELSE g

(***************************************************************************)
(* The room connection.  sockets lists the state of every WebSocket the    *)
(* page has created: "connecting", "open", "ready" once the server's init  *)
(* has arrived, "closing" after close() and "lost" after a network failure *)
(* while the close event is pending, "closed" and "dropped" after it.  ws  *)
(* is the index of the socket this.ws refers to, 0 for null.               *)
(* reconnectTimers holds, for each pending setTimeout of attemptReconnect, *)
(* the value of reconnectAttempts it was scheduled at and its delay.  sent is the last message given to ws.send on an open *)
(* socket, requests the get_valid_moves positions the server has not       *)
(* answered yet, reportedFor the position the last valid_moves reply was   *)
(* computed for, and room the server's state of the room joined.           *)
(***************************************************************************)
maxReconnectAttempts == 10

baseReconnectDelay == 1000

\* the state of a room nobody has played in; the pieces of a server board
\* arrive as objects of their own, none is an object of a local board
freshRoom ==
  [board |-> [s \in Squares |-> IF getInitialBoard[s] = NoPiece THEN NoPiece
                                 ELSE [getInitialBoard[s] EXCEPT !.id = @ + 32]],
   current_player |-> "white"]

\* the delay without the 30 s cap
uncappedDelay(n) == baseReconnectDelay * 2 ^ (n - 1)

\* line 2538, for reconnectAttempts = n
reconnectDelay(n) ==
  IF baseReconnectDelay * 2 ^ (n - 1) < 30000 THEN baseReconnectDelay * 2 ^ (n - 1) ELSE 30000

\* this.ws.close() on a socket that may be null: the socket starts closing
\* and its close event is delivered later
closeSocket(g) ==
  IF g.ws # 0 /\ g.sockets[g.ws] \in {"connecting", "open", "ready"}
  THEN [g EXCEPT !.sockets[g.ws] = "closing", !.requests = <<>>]
  ELSE g

\* connectWebSocket: the previous socket is closed and a new one created
connectWebSocket(g) ==
  LET g1 == closeSocket(g)
  IN  [g1 EXCEPT !.sockets = Append(@, "connecting"), !.ws = Len(g1.sockets) + 1, !.requests = <<>>]

\* the onopen handler every socket carries
onopen(g) ==
  LET g1 == updateConnectionStatus([g EXCEPT !.status = "connected"], TRUE)
  IN  [g1 EXCEPT !.reconnectAttempts = 0, !.isReconnecting = FALSE, !.screen = "game-screen"]

attemptReconnect(g) ==
  LET g1 == [g EXCEPT !.isReconnecting = TRUE, !.reconnectAttempts = @ + 1]
      delay == reconnectDelay(g1.reconnectAttempts)
  IN  [updateConnectionStatus(g1, FALSE) EXCEPT
         !.reconnectTimers = Append(@, [attempt |-> g1.reconnectAttempts, delay |-> delay])]

\* the onclose handler every socket carries
onclose(g) ==
  LET g1 == updateConnectionStatus(g, FALSE)
  IN  IF ~g1.isReconnecting /\ g1.reconnectAttempts < maxReconnectAttempts
      THEN attemptReconnect(g1)
      ELSE [g1 EXCEPT !.status = "disconnected"]

\* joinRoom; the server keeps the state of the room while the same room is
\* joined again and deals a new game for a new room
joinRoom(g, roomId) ==
  LET g1 == [g EXCEPT !.isLocalGame = FALSE, !.roomId = roomId, !.moveHistory = <<>>,
                      !.room = IF roomId = g.roomId THEN @ ELSE freshRoom]
  IN  connectWebSocket(g1)

\* the button that leads back to the menu
toMenu(g) == [closeSocket(g) EXCEPT !.screen = "main-menu"]

\* startMatchmaking: a new queue socket is created and kept in matchmakingWs;
\* the socket matchmakingWs held before is neither closed nor detached.  A
\* queue socket is "queued" from its creation until the client closes it
\* (no handler of the client sees it open) or match_found has arrived on it
startMatchmaking(g) ==
  [g EXCEPT !.status = "searching", !.screen = "game-screen",
            !.matchmakingSockets = Append(@, "queued"),
            !.matchmakingWs = Len(g.matchmakingSockets) + 1]

\* the onmessage handler of a queue socket for match_found: the socket that
\* matchmakingWs names at that moment is closed, then the room is joined
matchFound(g, roomId) ==
  LET g1 == IF g.matchmakingSockets[g.matchmakingWs] \in {"queued", "matched"}
            THEN [g EXCEPT !.matchmakingSockets[g.matchmakingWs] = "closing"]
            ELSE g
  IN  joinRoom(g1, roomId)

\* handleServerMessage for the message types init, move, valid_moves and
\* game_over
handleServerMessage(g, data) ==
  CASE data.type = "init" ->
         LET g1 == [g EXCEPT !.myColor = data.color, !.board = data.board,
                             !.currentPlayer = data.current_player,
                             !.customMoves = data.custom_moves, !.abilityCards = data.ability_cards,
                             !.timers = data.timers, !.lastMove = NoMove]
         IN  [startTimer(g1) EXCEPT !.status = IF data.players_count < 2 THEN "waiting"
                                                 ELSE "game started"]
    [] data.type = "move" ->
         LET piece == g.board[data.from]
             captured == g.board[data.to]
             g1 == [g EXCEPT !.board = data.board, !.currentPlayer = data.current_player,
                             !.lastMove = [from |-> data.from, to |-> data.to],
                             !.selectedPiece = NoSquare, !.validMoves = {}, !.validAttacks = {}]
             g2 == IF piece # NoPiece
                   THEN addMoveToHistory(g1, data.from, data.to, piece.type, piece.color, captured)
                   ELSE g1
         IN  IF data.checkmate
             THEN showGameOver(recordResult(g2, Other(data.current_player)),
                               winnerName(Other(data.current_player)), "checkmate")
             ELSE IF data.stalemate
             THEN showGameOver(recordResult(g2, "draw"), "draw", "stalemate")
             ELSE IF data.check THEN [g2 EXCEPT !.status = "check"]
             ELSE g2
    [] data.type = "valid_moves" ->
         [g EXCEPT !.validMoves = data.moves, !.validAttacks = data.attacks]
    [] data.type = "game_over" ->
         IF data.reason = "resign"
         THEN showGameOver(recordResult(g, data.winner), winnerName(data.winner), "opponent resigned")
         ELSE IF data.reason = "draw"
         THEN showGameOver(recordResult(g, "draw"), "draw", "agreement")
         ELSE g

\* this.ws.send(msg): the message leaves on an open socket; on a closing or
\* closed socket it is dropped, on a connecting or null one the call throws
\* after everything its handler assigns
send(g, msg) ==
  IF g.ws # 0 /\ g.sockets[g.ws] \in {"open", "ready"}
  THEN [g EXCEPT !.sent = msg,
                 !.requests = IF msg.type = "get_valid_moves" THEN Append(@, msg.from) ELSE @]
  ELSE g

handleOnlineClick(g, x, y) ==
  IF g.myColor # g.currentPlayer THEN g
  ELSE IF g.selectedPiece # NoSquare /\ <<x, y>> \in g.validMoves \cup g.validAttacks
  THEN send(g, [type |-> "move", from |-> g.selectedPiece, to |-> <<x, y>>])
  ELSE IF g.board[<<x, y>>] # NoPiece /\ g.board[<<x, y>>].color = g.myColor
  THEN send([g EXCEPT !.selectedPiece = <<x, y>>],
            [type |-> "get_valid_moves", from |-> <<x, y>>, to |-> NoSquare])
  ELSE deselectPiece(g)

\* the play-again button of the game-over dialog; generateId makes the name
\* of a room nobody has joined
playAgain(g) ==
  LET g1 == [g EXCEPT !.gameOverModal = FALSE]
  IN  IF g1.isLocalGame THEN startLocalGame(g1) ELSE joinRoom(g1, "generated")

\* the object as the constructor leaves it (stats and cards as loaded from
\* an empty localStorage)
constructed ==
  [board |-> getInitialBoard, selectedPiece |-> NoSquare, validMoves |-> {}, validAttacks |-> {},
   myColor |-> "null", currentPlayer |-> "white", lastMove |-> NoMove, moveHistory |-> <<>>,
   pendingPromotion |-> NoPromotion, timers |-> [white |-> 600, black |-> 600], timerInterval |-> FALSE,
   timerLive |-> FALSE, activeIntervals |-> 0,
   isLocalGame |-> FALSE, stats |-> [total |-> 0, white |-> 0, black |-> 0, draws |-> 0],
   customMoves |-> emptyCustomMoves, abilityCards |-> emptyAbilityCards,
   gameOverModal |-> FALSE, gameOverMessage |-> NoMessage, promotionModal |-> FALSE, status |-> "",
   ws |-> 0, sockets |-> <<>>, roomId |-> "", reconnectAttempts |-> 0, isReconnecting |-> FALSE,
   reconnectTimers |-> <<>>, connectionText |-> "", screen |-> "main-menu",
   sent |-> [type |-> "", from |-> NoSquare, to |-> NoSquare], requests |-> <<>>, reportedFor |-> NoSquare, room |-> freshRoom,
   matchmakingWs |-> 0, matchmakingSockets |-> <<>>]


(***************************************************************************)
(* Start positions.  startLocalGame always deals the 32-piece board, so    *)
(* the sparse positions the checks start from are obtained by playing the  *)
(* handlers themselves: each script is a list of card-form saves, resets   *)
(* and board clicks applied, in order, to the state startLocalGame leaves. *)
(***************************************************************************)
\* every offset the 8 x 8 move board can produce (dx, dy in -4..3, not 0,0)
allOffsets ==
  SelectSeq([i \in 1..64 |-> <<((i - 1) \div 8) - 4, ((i - 1) % 8) - 4>>],
            LAMBDA d : d # <<0, 0>>)

applyOp(g, op) ==
  CASE op[1] = "click" -> handleLocalClick(g, op[2], op[3])
    [] op[1] = "save" -> saveCard(g, op[2], op[3], op[4], op[5], op[6])
    [] op[1] = "reset" -> resetCustomMoves(g)
    [] op[1] = "time" -> applyTime(g, op[2], op[3])
    [] op[1] = "ticks" -> ticks(g, op[2])
    [] op[1] = "undo" -> requestUndo(g)

\* the state after script[lo..hi], applied in order.  The script is split in
\* halves; the handlers of the second half run only on a local game, which
\* is read off the state the first half has produced.
RECURSIVE run(_, _, _, _)
run(g, script, lo, hi) ==
  IF lo > hi THEN g
  ELSE IF lo = hi THEN applyOp(g, script[lo])
  ELSE LET mid == (lo + hi) \div 2
           half == run(g, script, lo, mid)
       IN  IF half.isLocalGame THEN run(half, script, mid + 1, hi) ELSE half

OMNI == allOffsets

\* ends with white king g1, white pawn b7, black king e5, black knight a8,
\* white to move, and one card: the white pawn attacks at offset (3, 2)
promotionScript ==
  <<
    <<"save", "white", "omni-pawn", "pawn", OMNI, OMNI>>,
    <<"save", "white", "omni-rook", "rook", OMNI, OMNI>>,
    <<"save", "white", "omni-knight", "knight", OMNI, OMNI>>,
    <<"save", "white", "omni-bishop", "bishop", OMNI, OMNI>>,
    <<"save", "white", "omni-queen", "queen", OMNI, OMNI>>,
    <<"save", "white", "omni-king", "king", OMNI, OMNI>>,
    <<"save", "black", "omni-pawn", "pawn", OMNI, OMNI>>,
    <<"save", "black", "omni-rook", "rook", OMNI, OMNI>>,
    <<"save", "black", "omni-knight", "knight", OMNI, OMNI>>,
    <<"save", "black", "omni-bishop", "bishop", OMNI, OMNI>>,
    <<"save", "black", "omni-queen", "queen", OMNI, OMNI>>,
    <<"save", "black", "omni-king", "king", OMNI, OMNI>>, <<"click", 1, 6>>,
    <<"click", 3, 4>>, <<"click", 4, 0>>, <<"click", 3, 3>>, <<"click", 3, 4>>,
    <<"click", 6, 1>>, <<"click", 3, 3>>, <<"click", 4, 3>>, <<"click", 6, 1>>,
    <<"click", 4, 1>>, <<"click", 1, 1>>, <<"click", 1, 2>>, <<"click", 4, 1>>,
    <<"click", 1, 2>>, <<"click", 7, 1>>, <<"click", 4, 2>>, <<"click", 1, 2>>,
    <<"click", 3, 1>>, <<"click", 7, 0>>, <<"click", 7, 6>>, <<"click", 3, 1>>,
    <<"click", 0, 1>>, <<"click", 7, 6>>, <<"click", 3, 6>>, <<"click", 0, 1>>,
    <<"click", 2, 1>>, <<"click", 0, 0>>, <<"click", 0, 6>>, <<"click", 2, 1>>,
    <<"click", 4, 2>>, <<"click", 3, 6>>, <<"click", 4, 6>>, <<"click", 4, 7>>,
    <<"click", 4, 6>>, <<"click", 0, 6>>, <<"click", 2, 7>>, <<"click", 4, 6>>,
    <<"click", 2, 7>>, <<"click", 4, 3>>, <<"click", 5, 6>>, <<"click", 4, 2>>,
    <<"click", 5, 1>>, <<"click", 5, 6>>, <<"click", 7, 7>>, <<"click", 3, 7>>,
    <<"click", 3, 0>>, <<"click", 7, 7>>, <<"click", 6, 7>>, <<"click", 3, 0>>,
    <<"click", 5, 0>>, <<"click", 6, 7>>, <<"click", 5, 7>>, <<"click", 5, 0>>,
    <<"click", 2, 0>>, <<"click", 1, 0>>, <<"click", 2, 0>>, <<"click", 5, 1>>,
    <<"click", 1, 1>>, <<"click", 5, 7>>, <<"click", 6, 6>>, <<"click", 2, 7>>,
    <<"click", 4, 4>>, <<"click", 6, 6>>, <<"click", 2, 6>>, <<"click", 4, 4>>,
    <<"click", 6, 0>>, <<"click", 2, 6>>, <<"click", 0, 7>>, <<"click", 6, 0>>,
    <<"click", 4, 2>>, <<"click", 0, 7>>, <<"click", 1, 7>>, <<"click", 4, 2>>,
    <<"click", 7, 4>>, <<"click", 1, 7>>, <<"click", 4, 3>>, <<"click", 7, 4>>,
    <<"click", 6, 7>>, <<"click", 2, 0>>, <<"click", 0, 0>>,
    <<"reset">>, <<"save", "white", "pike", "pawn", <<>>, <<<<3, 2>>>>>>
  >>

\* ends with white king h6, the white rook still unmoved on a1, black king
\* h8, white to move, and one card: the black king moves at offset (-3, 1)
mateScript ==
  <<
    <<"save", "white", "omni-pawn", "pawn", OMNI, OMNI>>,
    <<"save", "white", "omni-rook", "rook", OMNI, OMNI>>,
    <<"save", "white", "omni-knight", "knight", OMNI, OMNI>>,
    <<"save", "white", "omni-bishop", "bishop", OMNI, OMNI>>,
    <<"save", "white", "omni-queen", "queen", OMNI, OMNI>>,
    <<"save", "white", "omni-king", "king", OMNI, OMNI>>,
    <<"save", "black", "omni-pawn", "pawn", OMNI, OMNI>>,
    <<"save", "black", "omni-rook", "rook", OMNI, OMNI>>,
    <<"save", "black", "omni-knight", "knight", OMNI, OMNI>>,
    <<"save", "black", "omni-bishop", "bishop", OMNI, OMNI>>,
    <<"save", "black", "omni-queen", "queen", OMNI, OMNI>>,
    <<"save", "black", "omni-king", "king", OMNI, OMNI>>, <<"click", 4, 7>>,
    <<"click", 3, 4>>, <<"click", 4, 0>>, <<"click", 5, 2>>, <<"click", 3, 4>>,
    <<"click", 0, 0>>, <<"click", 2, 0>>, <<"click", 0, 2>>, <<"click", 0, 0>>,
    <<"click", 3, 0>>, <<"click", 0, 2>>, <<"click", 4, 6>>, <<"click", 3, 0>>,
    <<"click", 1, 1>>, <<"click", 4, 6>>, <<"click", 2, 7>>, <<"click", 1, 1>>,
    <<"click", 0, 1>>, <<"click", 2, 7>>, <<"click", 5, 6>>, <<"click", 0, 1>>,
    <<"click", 2, 1>>, <<"click", 5, 6>>, <<"click", 3, 7>>, <<"click", 2, 1>>,
    <<"click", 1, 0>>, <<"click", 3, 7>>, <<"click", 0, 6>>, <<"click", 1, 0>>,
    <<"click", 3, 1>>, <<"click", 0, 6>>, <<"click", 2, 6>>, <<"click", 3, 1>>,
    <<"click", 5, 0>>, <<"click", 2, 6>>, <<"click", 3, 6>>, <<"click", 5, 0>>,
    <<"click", 7, 0>>, <<"click", 3, 6>>, <<"click", 5, 7>>, <<"click", 7, 0>>,
    <<"click", 7, 1>>, <<"click", 5, 7>>, <<"click", 1, 7>>, <<"click", 7, 1>>,
    <<"click", 6, 0>>, <<"click", 1, 7>>, <<"click", 1, 6>>, <<"click", 6, 0>>,
    <<"click", 7, 3>>, <<"click", 5, 2>>, <<"click", 7, 0>>, <<"click", 7, 3>>,
    <<"click", 5, 1>>, <<"click", 1, 6>>, <<"click", 0, 3>>, <<"click", 5, 1>>,
    <<"click", 4, 1>>, <<"click", 0, 3>>, <<"click", 2, 0>>, <<"click", 4, 1>>,
    <<"click", 2, 0>>, <<"click", 6, 1>>, <<"click", 6, 2>>, <<"click", 7, 6>>,
    <<"click", 6, 2>>, <<"click", 7, 0>>, <<"click", 6, 2>>, <<"click", 2, 0>>,
    <<"click", 5, 0>>, <<"click", 6, 2>>, <<"click", 6, 4>>, <<"click", 5, 0>>,
    <<"click", 7, 2>>, <<"click", 6, 4>>, <<"click", 7, 7>>, <<"click", 6, 7>>,
    <<"click", 7, 4>>, <<"click", 7, 7>>, <<"click", 7, 4>>, <<"click", 6, 6>>,
    <<"click", 3, 3>>, <<"click", 7, 4>>, <<"click", 3, 3>>, <<"click", 7, 2>>,
    <<"click", 4, 5>>, <<"click", 3, 3>>, <<"click", 5, 2>>, <<"click", 4, 5>>,
    <<"click", 7, 2>>, <<"click", 5, 2>>, <<"click", 7, 0>>,
    <<"reset">>, <<"save", "black", "blink", "king", <<<<-3, 1>>>>, <<>>>>
  >>

\* ends with white king g1, white pawn a4, black king e8, white to move, and
\* one card: the white pawn moves at offset (0, 3), towards its own side
retreatScript ==
  <<
    <<"save", "white", "omni-pawn", "pawn", OMNI, OMNI>>,
    <<"save", "white", "omni-rook", "rook", OMNI, OMNI>>,
    <<"save", "white", "omni-knight", "knight", OMNI, OMNI>>,
    <<"save", "white", "omni-bishop", "bishop", OMNI, OMNI>>,
    <<"save", "white", "omni-queen", "queen", OMNI, OMNI>>,
    <<"save", "white", "omni-king", "king", OMNI, OMNI>>,
    <<"save", "black", "omni-pawn", "pawn", OMNI, OMNI>>,
    <<"save", "black", "omni-rook", "rook", OMNI, OMNI>>,
    <<"save", "black", "omni-knight", "knight", OMNI, OMNI>>,
    <<"save", "black", "omni-bishop", "bishop", OMNI, OMNI>>,
    <<"save", "black", "omni-queen", "queen", OMNI, OMNI>>,
    <<"save", "black", "omni-king", "king", OMNI, OMNI>>, <<"click", 0, 6>>,
    <<"click", 0, 4>>, <<"click", 3, 0>>, <<"click", 2, 3>>, <<"click", 4, 7>>,
    <<"click", 2, 3>>, <<"click", 2, 1>>, <<"click", 2, 2>>, <<"click", 2, 3>>,
    <<"click", 2, 0>>, <<"click", 0, 1>>, <<"click", 2, 4>>, <<"click", 2, 0>>,
    <<"click", 1, 1>>, <<"click", 2, 4>>, <<"click", 4, 6>>, <<"click", 0, 4>>,
    <<"click", 3, 1>>, <<"click", 4, 0>>, <<"click", 6, 3>>, <<"click", 3, 1>>,
    <<"click", 4, 1>>, <<"click", 6, 3>>, <<"click", 5, 6>>, <<"click", 4, 1>>,
    <<"click", 7, 1>>, <<"click", 5, 6>>, <<"click", 7, 7>>, <<"click", 7, 1>>,
    <<"click", 5, 1>>, <<"click", 7, 7>>, <<"click", 7, 6>>, <<"click", 1, 1>>,
    <<"click", 0, 0>>, <<"click", 7, 6>>, <<"click", 6, 7>>, <<"click", 0, 0>>,
    <<"click", 1, 0>>, <<"click", 6, 7>>, <<"click", 3, 7>>, <<"click", 1, 0>>,
    <<"click", 2, 2>>, <<"click", 3, 7>>, <<"click", 2, 7>>, <<"click", 5, 1>>,
    <<"click", 6, 1>>, <<"click", 2, 7>>, <<"click", 2, 6>>, <<"click", 2, 2>>,
    <<"click", 5, 0>>, <<"click", 2, 6>>, <<"click", 1, 6>>, <<"click", 5, 0>>,
    <<"click", 7, 0>>, <<"click", 1, 6>>, <<"click", 0, 7>>, <<"click", 7, 0>>,
    <<"click", 6, 0>>, <<"click", 0, 7>>, <<"click", 1, 7>>, <<"click", 6, 6>>,
    <<"click", 4, 6>>, <<"click", 1, 7>>, <<"click", 3, 6>>, <<"click", 6, 0>>,
    <<"click", 6, 2>>, <<"click", 3, 6>>, <<"click", 5, 7>>, <<"click", 6, 2>>,
    <<"click", 7, 3>>, <<"click", 5, 7>>, <<"click", 4, 6>>, <<"click", 7, 3>>,
    <<"click", 6, 6>>, <<"click", 4, 6>>, <<"click", 3, 4>>, <<"click", 6, 6>>,
    <<"click", 6, 7>>, <<"click", 3, 4>>, <<"click", 4, 0>>, <<"click", 6, 1>>,
    <<"click", 2, 3>>, <<"click", 4, 0>>, <<"click", 6, 3>>, <<"click", 2, 3>>,
    <<"click", 0, 4>>, <<"click", 6, 3>>, <<"click", 4, 0>>,
    <<"reset">>, <<"save", "white", "retreat", "pawn", <<<<0, 3>>>>, <<>>>>
  >>

started == startLocalGame(constructed)
promotionEndgame == run(started, promotionScript, 1, Len(promotionScript))
mateEndgame == run(started, mateScript, 1, Len(mateScript))
retreatEndgame == run(started, retreatScript, 1, Len(retreatScript))

\* played on from mateEndgame: the rook goes to b1 and back while the black
\* king goes to g8 and back, then the undo button is pressed
shuffleScript ==
  <<<<"click", 0, 7>>, <<"click", 1, 7>>, <<"click", 7, 0>>, <<"click", 6, 0>>,
    <<"click", 1, 7>>, <<"click", 0, 7>>, <<"click", 6, 0>>, <<"click", 7, 0>>, <<"undo">>>>

\* the position of mateEndgame with a rook that has moved
shuffledEndgame == run(mateEndgame, shuffleScript, 1, Len(shuffleScript))

StartStates == {promotionEndgame, mateEndgame, retreatEndgame, shuffledEndgame}

(***************************************************************************)
(* Bounds and inputs                                                       *)
(***************************************************************************)
\* piece relocations, recorded results and new games explored after a start
\* position
MaxMoves == 1
\* card operations explored after a start position
MaxCardOps == 1

\* the buttons of the promotion dialog (data-piece)
PromotionChoices == {"queen", "rook", "bishop", "knight"}

\* what the card form can be filled with in the explored runs
CardMenu ==
  {[color |-> "white", name |-> "pike", pieceType |-> "pawn", moves |-> <<>>, attacks |-> <<<<3, 2>>>>],
   [color |-> "black", name |-> "blink", pieceType |-> "king", moves |-> <<<<-3, 1>>>>, attacks |-> <<>>]}

VARIABLES game, moves, cardOps

vars == <<game, moves, cardOps>>

Init == game \in StartStates /\ moves = 0 /\ cardOps = 0

selectionOf(g) == <<g.selectedPiece, g.validMoves, g.validAttacks>>

\* a handler result that relocated a piece (lastMove is rewritten) or ended
\* the game by king capture (a result is recorded and nothing else changes)
countsAsMove(g, r) ==
  \/ r.lastMove # g.lastMove
  \/ r.stats # g.stats /\ r.board = g.board /\ r.pendingPromotion = g.pendingPromotion

\* one call of a board or dialog handler with result r
Step(r) ==
  /\ countsAsMove(game, r) => moves < MaxMoves
  /\ game' = r
  /\ moves' = IF countsAsMove(game, r) THEN moves + 1 ELSE moves
  /\ UNCHANGED cardOps

\* one call of a card handler with result r
CardStep(r) ==
  /\ cardOps < MaxCardOps
  /\ game' = r
  /\ cardOps' = cardOps + 1
  /\ UNCHANGED moves

LocalClick == \E s \in Squares : game.isLocalGame /\ Step(handleLocalClick(game, s[1], s[2]))

SelectPromotion == \E t \in PromotionChoices : Step(selectPromotion(game, t))

SaveCard == \E c \in CardMenu : CardStep(saveCard(game, c.color, c.name, c.pieceType, c.moves, c.attacks))

ToggleCard ==
  \E c \in Colors : \E i \in 1..Len(game.abilityCards[c]) :
     CardStep(toggleCard(game, c, game.abilityCards[c][i].name))

DeleteCard ==
  \E c \in Colors : \E i \in 1..Len(game.abilityCards[c]) :
     CardStep(deleteCard(game, c, game.abilityCards[c][i].name))

ResetCustomMoves == CardStep(resetCustomMoves(game))

Next ==
  \/ LocalClick
  \/ SelectPromotion
  \/ SaveCard
  \/ ToggleCard
  \/ DeleteCard
  \/ ResetCustomMoves

Spec == Init /\ [][Next]_vars

(***************************************************************************)
(* The card registry on its own: the four registry handlers, called in any *)
(* order from the registry resetCustomMoves leaves, on each start position *)
(***************************************************************************)
\* registry operations explored from the empty registry
MaxRegistryOps == 3

\* what the card form is filled with: two white pawn cards that share the
\* move offset (1, -1), a second filling of the form under the name "spear",
\* and a card for each king
RegistryMenu ==
  {[color |-> "white", name |-> "spear", pieceType |-> "pawn", moves |-> <<<<1, -1>>>>, attacks |-> <<<<3, 2>>>>],
   [color |-> "white", name |-> "lance", pieceType |-> "pawn", moves |-> <<<<1, -1>>, <<0, 3>>>>, attacks |-> <<>>],
   [color |-> "white", name |-> "spear", pieceType |-> "pawn", moves |-> <<>>, attacks |-> <<<<2, 2>>>>],
   [color |-> "white", name |-> "leap", pieceType |-> "king", moves |-> <<<<0, -2>>>>, attacks |-> <<>>],
   [color |-> "black", name |-> "blink", pieceType |-> "king", moves |-> <<<<-3, 1>>>>, attacks |-> <<<<0, 2>>>>]}

RegistryInit == game \in {resetCustomMoves(s) : s \in StartStates} /\ moves = 0 /\ cardOps = 0

\* one call of a registry handler with result r
RegistryStep(r) ==
  /\ cardOps < MaxRegistryOps
  /\ game' = r
  /\ cardOps' = cardOps + 1
  /\ UNCHANGED moves

RegistrySave ==
  \E c \in RegistryMenu : RegistryStep(saveCard(game, c.color, c.name, c.pieceType, c.moves, c.attacks))

RegistryToggle ==
  \E c \in Colors : \E i \in 1..Len(game.abilityCards[c]) :
     RegistryStep(toggleCard(game, c, game.abilityCards[c][i].name))

RegistryDelete ==
  \E c \in Colors : \E i \in 1..Len(game.abilityCards[c]) :
     RegistryStep(deleteCard(game, c, game.abilityCards[c][i].name))

RegistryReset == RegistryStep(resetCustomMoves(game))

RegistryNext ==
  \/ RegistrySave
  \/ RegistryToggle
  \/ RegistryDelete
  \/ RegistryReset

RegistrySpec == RegistryInit /\ [][RegistryNext]_vars

(***************************************************************************)
(* The clock: the start positions played with both clocks set to one       *)
(* minute and run down to their last seconds, then the board, dialog and   *)
(* new-game handlers together with the interval callback                   *)
(***************************************************************************)
\* seconds left on each clock in the start positions; ticks are explored on
\* a clock that shows at most this much
MaxClock == 2

\* number of card saves a script opens with
openingSaves == Cardinality({"pawn", "rook", "knight", "bishop", "queen", "king"} \X {"white", "black"})

\* the script with applyTime(1, 1) before white's first move, white's clock
\* run down before that move and black's clock run down right after it
withClock(script) ==
  SubSeq(script, 1, openingSaves)
    \o <<<<"time", 1, 1>>, <<"ticks", 60 - MaxClock>>>>
    \o SubSeq(script, openingSaves + 1, openingSaves + 2)
    \o <<<<"ticks", 60 - MaxClock>>>>
    \o SubSeq(script, openingSaves + 3, Len(script))

TimedStartStates ==
  {run(started, withClock(script), 1, Len(script) + 3) : script \in {promotionScript, mateScript, retreatScript}}

TimerInit == game \in TimedStartStates /\ moves = 0 /\ cardOps = 0

\* one run of the interval callback, while an interval is active
Tick ==
  /\ game.activeIntervals > 0
  /\ game.timers[game.currentPlayer] <= MaxClock
  /\ game' = tick(game)
  /\ UNCHANGED <<moves, cardOps>>

\* a new game with result r; new games share the budget of the moves
Restart(r) ==
  /\ moves < MaxMoves
  /\ game' = r
  /\ moves' = moves + 1
  /\ UNCHANGED cardOps

\* the local-game button of the main menu
StartLocalGame == Restart(startLocalGame(game))

PlayAgain == game.gameOverModal /\ Restart(playAgain(game))

TimerNext ==
  \/ LocalClick
  \/ SelectPromotion
  \/ Tick
  \/ StartLocalGame
  \/ PlayAgain

TimerSpec == TimerInit /\ [][TimerNext]_vars

(***************************************************************************)
(* The page with its room connection: the menu and dialog buttons, the     *)
(* events of the sockets and of the reconnect timeouts, the messages of    *)
(* the server and the clicks on three squares of the queen-side pawns.     *)
(***************************************************************************)
\* sockets created after the page has loaded
MaxSockets == 3

\* get_valid_moves requests awaiting their reply
MaxInFlight == 2

\* a2, b2, a3
NetSquares == {<<0, 6>>, <<1, 6>>, <<0, 5>>}

NetInit == game = constructed /\ moves = 0 /\ cardOps = 0

NetStep(r) == game' = r /\ UNCHANGED <<moves, cardOps>>

ready == game.ws # 0 /\ game.sockets[game.ws] = "ready"

JoinRoom == game.screen = "main-menu" /\ Len(game.sockets) < MaxSockets /\ NetStep(joinRoom(game, "room"))

NetPlayAgain == game.gameOverModal /\ (game.isLocalGame \/ Len(game.sockets) < MaxSockets) /\ NetStep(playAgain(game))

NetStartLocalGame == game.screen = "main-menu" /\ NetStep(startLocalGame(game))

ToMenu == game.screen = "game-screen" /\ NetStep(toMenu(game))

\* the same button in the game-over dialog
ToMenuModal == game.gameOverModal /\ NetStep(toMenu([game EXCEPT !.gameOverModal = FALSE]))

\* the connection of socket i is established
SocketOpen ==
  \E i \in 1..Len(game.sockets) :
     /\ game.sockets[i] = "connecting"
     /\ NetStep(onopen([game EXCEPT !.sockets[i] = "open"]))

\* the connection of socket i fails: error event, close event to follow
SocketError ==
  \E i \in 1..Len(game.sockets) :
     /\ game.sockets[i] \in {"connecting", "open", "ready"}
     /\ NetStep([updateConnectionStatus([game EXCEPT !.sockets[i] = "lost", !.requests = <<>>], FALSE)
                   EXCEPT !.status = "connection error"])

\* the close event of socket i
CloseEvent ==
  \E i \in 1..Len(game.sockets) :
     /\ game.sockets[i] \in {"closing", "lost"}
     /\ NetStep(onclose([game EXCEPT !.sockets[i] = IF @ = "closing" THEN "closed" ELSE "dropped"]))

\* the callback of the i-th pending timeout of attemptReconnect
ReconnectTimer ==
  \E i \in 1..Len(game.reconnectTimers) :
     LET t == game.reconnectTimers
         g1 == [game EXCEPT !.reconnectTimers = SubSeq(t, 1, i - 1) \o SubSeq(t, i + 1, Len(t))]
     IN  /\ Len(game.sockets) < MaxSockets
         /\ NetStep(IF g1.reconnectAttempts <= maxReconnectAttempts THEN connectWebSocket(g1) ELSE g1)

\* the server greets a new connection with the state of the room
ServerInit ==
  \E c \in Colors :
     /\ game.ws # 0 /\ game.sockets[game.ws] = "open"
     /\ NetStep(handleServerMessage(
                  [game EXCEPT !.sockets[game.ws] = "ready"],
                  [type |-> "init", color |-> c, board |-> game.room.board,
                   current_player |-> game.room.current_player,
                   custom_moves |-> emptyCustomMoves, ability_cards |-> emptyAbilityCards,
                   timers |-> [white |-> 600, black |-> 600], players_count |-> 2]))

\* what the server answers to get_valid_moves for a position of its board
serverValidMoves(room, pos) ==
  IF room.board[pos] = NoPiece THEN [moves |-> {}, attacks |-> {}]
  ELSE calculateValidMoves(room.board, emptyCustomMoves, pos[1], pos[2])

\* the server applies a move of the side to move and broadcasts it
ServerMove ==
  \E from \in NetSquares, to \in NetSquares :
     /\ ready /\ moves < MaxMoves
     /\ game.room.board[from] # NoPiece
     /\ game.room.board[from].color = game.room.current_player
     /\ to \in serverValidMoves(game.room, from).moves \cup serverValidMoves(game.room, from).attacks
     /\ LET b == game.room.board
            r == [board |-> [b EXCEPT ![to] = [b[from] EXCEPT !.moved = TRUE], ![from] = NoPiece],
                  current_player |-> Other(game.room.current_player)]
        IN  game' = handleServerMessage(
                      [game EXCEPT !.room = r],
                      [type |-> "move", board |-> r.board, from |-> from, to |-> to,
                       current_player |-> r.current_player,
                       check |-> isInCheck(r.board, r.current_player),
                       checkmate |-> isCheckmate(r.board, r.current_player),
                       stalemate |-> isStalemate(r.board, r.current_player)])
     /\ moves' = moves + 1
     /\ UNCHANGED cardOps

\* the server answers the oldest get_valid_moves request
ValidMovesReply ==
  /\ ready /\ game.requests # <<>>
  /\ LET pos == Head(game.requests)
         vm == serverValidMoves(game.room, pos)
     IN  NetStep(handleServerMessage(
                   [game EXCEPT !.requests = Tail(@), !.reportedFor = pos],
                   [type |-> "valid_moves", moves |-> vm.moves, attacks |-> vm.attacks]))

\* the opponent resigns
ServerGameOver ==
  \E w \in Colors :
     /\ ready /\ ~game.gameOverModal /\ moves < MaxMoves
     /\ game' = handleServerMessage(game, [type |-> "game_over", reason |-> "resign", winner |-> w])
     /\ moves' = moves + 1
     /\ UNCHANGED cardOps

OnlineClick ==
  \E s \in NetSquares :
     /\ ~game.isLocalGame /\ game.screen = "game-screen"
     /\ Len(handleOnlineClick(game, s[1], s[2]).requests) <= MaxInFlight
     /\ NetStep(handleOnlineClick(game, s[1], s[2]))

NetLocalClick ==
  \E s \in NetSquares :
     /\ game.isLocalGame /\ game.screen = "game-screen"
     /\ Step(handleLocalClick(game, s[1], s[2]))

NetNext ==
  \/ JoinRoom
  \/ NetPlayAgain
  \/ NetStartLocalGame
  \/ ToMenu
  \/ ToMenuModal
  \/ SocketOpen
  \/ SocketError
  \/ CloseEvent
  \/ ReconnectTimer
  \/ ServerInit
  \/ ServerMove
  \/ ServerGameOver
  \/ NetLocalClick

NetSpec == NetInit /\ [][NetNext]_vars

(***************************************************************************)
(* Online play on a connection that stays up: one room is joined, the      *)
(* server deals the game, answers get_valid_moves and relays moves.        *)
(***************************************************************************)
OnlineNext ==
  \/ JoinRoom
  \/ SocketOpen
  \/ ServerInit
  \/ ServerMove
  \/ ValidMovesReply
  \/ OnlineClick

OnlineSpec == NetInit /\ [][OnlineNext]_vars

(***************************************************************************)
(* The matchmaking queue: the menu buttons, the queue sockets and the      *)
(* match_found message, with the room socket the match opens.  The runs    *)
(* start from the constructed object and from a local game that was begun  *)
(* after the player had queued and gone back to the menu, played to the    *)
(* promotion endgame.                                                      *)
(***************************************************************************)
\* queue sockets created in the explored runs
MaxQueued == 2

StartMatchmaking ==
  /\ game.screen = "main-menu"
  /\ Len(game.matchmakingSockets) < MaxQueued
  /\ NetStep(startMatchmaking(game))

\* the server has paired the player queued on socket i: match_found arrives
\* on it, once
MatchFound ==
  \E i \in 1..Len(game.matchmakingSockets) :
     /\ game.matchmakingSockets[i] = "queued"
     /\ Len(game.sockets) < MaxSockets
     /\ NetStep(matchFound([game EXCEPT !.matchmakingSockets[i] = "matched"], "matched"))

\* the constructed object, and the promotion endgame of a player who
\* queued, went back to the menu and started a local game
MatchInit ==
  /\ game \in {constructed,
                run(startLocalGame(toMenu(startMatchmaking(constructed))),
                    promotionScript, 1, Len(promotionScript))}
  /\ moves = 0
  /\ cardOps = 0

MatchSpec ==
  MatchInit /\ [][\/ StartMatchmaking
                  \/ MatchFound
                  \/ ToMenu
                  \/ SocketOpen
                  \/ CloseEvent
                  \/ ServerInit
                  \/ ServerMove
                  \/ LocalClick
                  \/ SelectPromotion]_vars

(***************************************************************************)
(* The local game of frontend-v2.5: board clicks on the three start        *)
(* positions that are built by card saves and clicks alone; played with    *)
(* handleLocalClickV25 the same scripts end in the same states             *)
(***************************************************************************)
\* relocations explored after a start position in the v2.5 game
MaxV25Moves == 2

V25Init == game \in {promotionEndgame, mateEndgame, retreatEndgame} /\ moves = 0 /\ cardOps = 0

V25Click ==
  \E s \in Squares :
     LET r == handleLocalClickV25(game, s[1], s[2])
         relocated == r.lastMove # game.lastMove
     IN  /\ relocated => moves < MaxV25Moves
         /\ game' = r
         /\ moves' = IF relocated THEN moves + 1 ELSE moves
         /\ UNCHANGED cardOps

V25Spec == V25Init /\ [][V25Click]_vars

(***************************************************************************)
(* Properties                                                              *)
(***************************************************************************)
\* the result of a board click on square s
clicked(g, s) == handleLocalClick(g, s[1], s[2])

\* a click on s takes the commit branch and finds a piece on the selected
\* square (the mover)
commits(g, s) ==
  /\ g.isLocalGame
  /\ g.selectedPiece # NoSquare
  /\ s \in g.validMoves \cup g.validAttacks
  /\ g.board[g.selectedPiece] # NoPiece

mover(g) == g.board[g.selectedPiece]

targetsKing(g, s) == g.board[s] # NoPiece /\ g.board[s].type = "king"

\* a commit that completes in the click handler: no king target, no promotion
plainCommit(g, s) == commits(g, s) /\ ~targetsKing(g, s) /\ ~needsPromotion(mover(g), s[2])

\* the step is the click on s taking the commit branch with a mover (such a
\* click rewrites lastMove or, on a king, records a result)
commitStep(s) ==
  /\ commits(game, s)
  /\ game'.lastMove = [from |-> game.selectedPiece, to |-> s] \/ game'.stats # game.stats
  /\ game' = clicked(game, s)

kingSquares(b, color) == {s \in Squares : b[s] # NoPiece /\ b[s].type = "king" /\ b[s].color = color}

\* C1: every destination left in validMoves or validAttacks for the piece on
\* the selected square yields, when the move is made, a board on which the
\* mover's colour is not in check; in particular the board a committed move
\* leaves has the mover's king out of check.
C1_CommittedMovesAreLegal ==
  [][\A s \in Squares :
        commitStep(s)
          => /\ ~isInCheck(simulate(game.board, game.selectedPiece, s), mover(game).color)
             /\ ~targetsKing(game, s) => ~isInCheck(game'.board, mover(game).color)]_vars

\* a king has been moved although another of its candidate squares would
\* have left it in check
C1_Witness ==
  LET from == game.lastMove.from
      to == game.lastMove.to
      prev == simulate(game.board, to, from)
  IN  /\ moves >= 1
      /\ from = <<7, 2>>
      /\ game.board[to].type = "king"
      /\ game.board[to].color = "white"
      /\ \E m \in getPieceMoves(prev, from[1], from[2]).moves : isInCheck(simulate(prev, from, m), "white")

\* C2: while a promotion is pending, no board click changes a board cell or
\* currentPlayer.
C2_NoMoveWhilePromotionPending ==
  [][\A s \in Squares :
        (game.pendingPromotion # NoPromotion /\ game.isLocalGame /\ game' = clicked(game, s))
          => /\ game'.board = game.board
             /\ game'.currentPlayer = game.currentPlayer]_vars

\* a promotion is pending and the square the pawn was moved to is empty
C2_Diverged ==
  /\ game.pendingPromotion # NoPromotion
  /\ game.board[<<game.pendingPromotion.x, game.pendingPromotion.y>>] = NoPiece

\* C3: the board holds exactly one king of each colour in every reachable
\* state.
C3_OneKingPerColour == \A c \in Colors : Cardinality(kingSquares(game.board, c)) = 1

\* the king-capture shortcut has run and both kings are still on the board
C3_Witness ==
  /\ game.gameOverMessage.reason = "king captured"
  /\ \A c \in Colors : kingSquares(game.board, c) # {}

\* some piece of color has a move of calculateValidMoves (standard geometry
\* and the colour's card offsets) that survives filterMovesInCheck
hasAugmentedMove(g, color) ==
  \E s \in Squares :
     /\ g.board[s] # NoPiece
     /\ g.board[s].color = color
     /\ LET f == filterMovesInCheck(g.board, s, calculateValidMoves(g.board, g.customMoves, s[1], s[2]))
        IN  f.moves \cup f.attacks # {}

\* C4: isCheckmate(color) holds exactly when color is in check and has no
\* augmented move surviving the legality filter, and isStalemate(color)
\* exactly when color is not in check and has none.
C4_MateCountsCardMoves ==
  \A c \in Colors :
     /\ isCheckmate(game.board, c) <=> (isInCheck(game.board, c) /\ ~hasAugmentedMove(game, c))
     /\ isStalemate(game.board, c) <=> (~isInCheck(game.board, c) /\ ~hasAugmentedMove(game, c))

\* black is reported mated while a card move of its king escapes
C4_Diverged ==
  /\ game.gameOverMessage.reason = "checkmate"
  /\ isCheckmate(game.board, "black")
  /\ hasAugmentedMove(game, "black")

\* the attack offsets of the enabled cards of a colour for a piece type
enabledAttackOffsets(g, color, type) ==
  UNION {Range(card.attacks) : card \in {c \in Range(g.abilityCards[color]) :
                                           c.pieceType = type /\ c.enabled # "false"}}

\* an enemy piece has an enabled card attack offset landing on color's king
cardAttackOnKing(g, color) ==
  \E s \in Squares :
     /\ g.board[s] # NoPiece
     /\ g.board[s].color = Other(color)
     /\ \E d \in enabledAttackOffsets(g, Other(color), g.board[s].type) :
           <<s[1] + d[1], s[2] + d[2]>> \in kingSquares(g.board, color)

\* C5: whenever an enemy piece has an enabled card attack offset that lands
\* on color's king square, isInCheck(color) is true.
C5_CheckCountsCardAttacks ==
  \A c \in Colors : cardAttackOnKing(game, c) => isInCheck(game.board, c)

\* exactly one of three
exactlyOne(a, b, c) == (a /\ ~b /\ ~c) \/ (~a /\ b /\ ~c) \/ (~a /\ ~b /\ c)

\* C6: on every reachable board and for both colours exactly one of
\* isCheckmate, isStalemate and hasValidMoves is true.
C6_ExactlyOneVerdict ==
  \A c \in Colors :
     exactlyOne(isCheckmate(game.board, c), isStalemate(game.board, c), hasValidMoves(game.board, c))

\* each of the three verdicts is the true one for some colour: black is
\* mated or stalemated while white has moves
C6_Witness ==
  /\ isCheckmate(game.board, "black") \/ isStalemate(game.board, "black")
  /\ hasValidMoves(game.board, "white")
  /\ game.gameOverModal

\* C7: a click on a king standing in the valid set of the selected piece
\* records the mover's colour as winner, opens the game-over dialog with the
\* clock stopped, and runs no move and no check / mate / stalemate cascade:
\* board, side to move, status line and move list stay as they were.
C7_KingCaptureEndsGame ==
  [][\A s \in Squares :
        (targetsKing(game, s) /\ commitStep(s))
          => LET c == mover(game).color
             IN  /\ game'.stats[c] = game.stats[c] + 1
                 /\ game'.stats.total = game.stats.total + 1
                 /\ game'.stats[Other(c)] = game.stats[Other(c)]
                 /\ game'.stats.draws = game.stats.draws
                 /\ game'.gameOverModal
                 /\ game'.gameOverMessage = [winner |-> winnerName(c), reason |-> "king captured"]
                 /\ ~game'.timerInterval
                 /\ game'.board = game.board
                 /\ game'.currentPlayer = game.currentPlayer
                 /\ game'.status = game.status
                 /\ game'.moveHistory = game.moveHistory]_vars

\* white has taken the black king with the clock running before
C7_Witness ==
  /\ game.gameOverMessage = [winner |-> "white", reason |-> "king captured"]
  /\ game.stats.total = 1
  /\ game.stats.white = 1
  /\ ~game.timerInterval

\* C8: a committed non-promoting move that leaves the opponent in check with
\* no move surviving the legality search ends the game as checkmate with the
\* moving colour as winner; one that leaves the opponent out of check with
\* no such move ends it as a draw by stalemate.
C8_MateAndStalemateEndGame ==
  [][\A s \in Squares :
        (plainCommit(game, s) /\ commitStep(s))
          => LET c == mover(game).color
                 opp == game'.currentPlayer
                 stuck == ~hasValidMoves(game'.board, opp)
             IN  /\ opp = Other(c)
                 /\ (isInCheck(game'.board, opp) /\ stuck)
                      => /\ game'.gameOverModal
                         /\ game'.gameOverMessage = [winner |-> winnerName(c), reason |-> "checkmate"]
                         /\ game'.stats[c] = game.stats[c] + 1
                         /\ game'.stats.total = game.stats.total + 1
                         /\ game'.stats.draws = game.stats.draws
                 /\ (~isInCheck(game'.board, opp) /\ stuck)
                      => /\ game'.gameOverModal
                         /\ game'.gameOverMessage = [winner |-> "draw", reason |-> "stalemate"]
                         /\ game'.stats.draws = game.stats.draws + 1
                         /\ game'.stats.total = game.stats.total + 1
                         /\ game'.stats[c] = game.stats[c]]_vars

\* the rook has mated the black king on the back rank
C8_Witness ==
  /\ game.gameOverMessage = [winner |-> "white", reason |-> "checkmate"]
  /\ game.stats.white = 1
  /\ game.lastMove = [from |-> <<0, 7>>, to |-> <<0, 0>>]
  /\ isInCheck(game.board, "black")

\* C9: a committed non-promoting move from F to T that targets no king
\* leaves F empty, puts the moved piece on T with moved set, leaves every
\* other cell as it was, flips currentPlayer once and clears the selection.
C9_CommitFrame ==
  [][\A s \in Squares :
        (plainCommit(game, s) /\ commitStep(s))
          => LET F == game.selectedPiece
             IN  /\ game'.board[F] = NoPiece
                 /\ game'.board[s] = [mover(game) EXCEPT !.moved = TRUE]
                 /\ \A o \in Squares \ {F, s} : game'.board[o] = game.board[o]
                 /\ game'.currentPlayer = Other(game.currentPlayer)
                 /\ selectionOf(game') = <<NoSquare, {}, {}>>]_vars

\* the rook that had never moved has left a1 and carries the flag
C9_Witness ==
  /\ game.lastMove.from = <<0, 7>>
  /\ game.board[<<0, 7>>] = NoPiece
  /\ game.board[game.lastMove.to].id = 25
  /\ game.board[game.lastMove.to].moved
  /\ game.currentPlayer = "black"
  /\ game.selectedPiece = NoSquare

\* C10: with a promotion pending, selectPromotion(pieceType) leaves the
\* relocated pawn, with its type overwritten, standing on the promotion
\* square, clears pendingPromotion, records the move in moveHistory and
\* flips currentPlayer once; with none pending it changes nothing.
C10_SelectPromotionEffect ==
  [][\A t \in PromotionChoices :
        game' = selectPromotion(game, t)
          => LET pp == game.pendingPromotion
             IN  IF pp = NoPromotion THEN game' = game
                 ELSE /\ game'.board[<<pp.x, pp.y>>].id = pp.piece
                      /\ game'.board[<<pp.x, pp.y>>].type = t
                      /\ game'.pendingPromotion = NoPromotion
                      /\ game'.moveHistory # game.moveHistory
                      /\ game'.currentPlayer = Other(game.currentPlayer)]_vars

\* a promotion has been chosen and its square is empty
C10_Diverged ==
  /\ game.pendingPromotion = NoPromotion
  /\ game.lastMove.to[2] = 0
  /\ game.board[game.lastMove.to] = NoPiece
  /\ game.currentPlayer = "black"

\* C11: a pawn is offered promotion only on the farthest rank of its own
\* direction: a white pawn only on y = 0, a black pawn only on y = 7; a pawn
\* that arrives on the other edge rank is not promoted.
C11_PromotionOnlyOnFarRank ==
  game.pendingPromotion # NoPromotion
    => game.pendingPromotion.y = (IF game.pendingPromotion.color = "white" THEN 0 ELSE 7)

\* a white pawn has stepped back to rank y = 7 and the promotion dialog is open
C11_Diverged ==
  /\ game.pendingPromotion # NoPromotion
  /\ game.pendingPromotion.color = "white"
  /\ game.pendingPromotion.y = 7
  /\ game.promotionModal
  /\ game.board[<<game.pendingPromotion.x, 7>>].type = "pawn"

\* the enabled cards of a colour for a piece type
enabledCards(g, color, type) ==
  {c \in Range(g.abilityCards[color]) : c.pieceType = type /\ c.enabled # "false"}

\* the move offsets of the enabled cards of a colour for a piece type
enabledMoveOffsets(g, color, type) == UNION {Range(c.moves) : c \in enabledCards(g, color, type)}

\* customMoves[color][type] as two sets of offsets, a missing entry being empty
tableSets(g, color, type) ==
  IF type \in DOMAIN g.customMoves[color]
  THEN [moves |-> Range(g.customMoves[color][type].moves),
        attacks |-> Range(g.customMoves[color][type].attacks)]
  ELSE [moves |-> {}, attacks |-> {}]

\* what the enabled cards of a colour give a piece type, as two sets
cardSets(g, color, type) ==
  [moves |-> enabledMoveOffsets(g, color, type), attacks |-> enabledAttackOffsets(g, color, type)]

\* the step is deleteCard on the i-th card of colour c
deleteStep(c, i) ==
  /\ game.isLocalGame
  /\ cardOps' = cardOps + 1
  /\ Len(game'.abilityCards[c]) = Len(game.abilityCards[c]) - 1
  /\ game' = deleteCard(game, c, game.abilityCards[c][i].name)

\* C12: deleteCard(color, name) removes from customMoves exactly the offsets
\* the deleted card contributed and no others: an offset that another
\* enabled card of the same colour and piece type also provides is still in
\* customMoves[color][pieceType] after the deletion.
C12_DeleteRemovesOnlyOwnOffsets ==
  [][\A c \in Colors : \A i \in 1..Len(game.abilityCards[c]) :
        deleteStep(c, i)
          => LET card == game.abilityCards[c][i]
                 rest == [game EXCEPT !.abilityCards[c] = SelectSeq(@, LAMBDA k : k.name # card.name)]
                 own == [moves |-> Range(card.moves) \ enabledMoveOffsets(rest, c, card.pieceType),
                         attacks |-> Range(card.attacks) \ enabledAttackOffsets(rest, c, card.pieceType)]
             IN  \A t \in PieceTypes :
                    /\ tableSets(game', c, t).moves =
                         tableSets(game, c, t).moves \ (IF t = card.pieceType THEN own.moves ELSE {})
                    /\ tableSets(game', c, t).attacks =
                         tableSets(game, c, t).attacks \ (IF t = card.pieceType THEN own.attacks ELSE {})]_vars

\* the lance is the only card left, it is enabled, and the table has lost the
\* move offset (1, -1) it gives
C12_Diverged ==
  /\ Len(game.abilityCards["white"]) = 1
  /\ game.abilityCards["white"][1].name = "lance"
  /\ game.abilityCards["white"][1].enabled # "false"
  /\ <<1, -1>> \notin tableSets(game, "white", "pawn").moves
  /\ <<0, 3>> \in tableSets(game, "white", "pawn").moves

\* C13: after any sequence of saveCard, toggleCard, deleteCard and
\* resetCustomMoves from an empty registry, customMoves is determined by the
\* cards and their enabled flags: for every colour and piece type its moves
\* and attacks, as sets, are the union of those of the enabled cards.
C13_TableDeterminedByCards ==
  \A c \in Colors : \A t \in PieceTypes : tableSets(game, c, t) = cardSets(game, c, t)

\* the form was saved twice under the name "spear": the table still holds
\* the attack offset (3, 2) of the first filling, which no card gives any more
C13_Diverged ==
  /\ <<3, 2>> \in tableSets(game, "white", "pawn").attacks
  /\ <<3, 2>> \notin enabledAttackOffsets(game, "white", "pawn")
  /\ <<2, 2>> \in enabledAttackOffsets(game, "white", "pawn")

\* C14: in every registry state reachable through the four handlers,
\* toggleCard applied twice to the same existing card returns customMoves,
\* as sets of offsets per colour and piece type, to what it was before.
C14_ToggleTwiceRestoresTable ==
  \A c \in Colors : \A i \in 1..Len(game.abilityCards[c]) :
     LET name == game.abilityCards[c][i].name
         twice == toggleCard(toggleCard(game, c, name), c, name)
     IN  \A k \in Colors : \A t \in PieceTypes : tableSets(twice, k, t) = tableSets(game, k, t)

\* a P piece of colour c stands on s
standsOn(g, s, c, type) == g.board[s] # NoPiece /\ g.board[s].color = c /\ g.board[s].type = type

\* every destination calculateValidMoves computes for the piece on s
destinations(g, s) ==
  LET cv == calculateValidMoves(g.board, g.customMoves, s[1], s[2])
  IN  cv.moves \cup cv.attacks

\* the destinations of the standard geometry for the piece on s
standardDestinations(g, s) ==
  LET std == standardValid(g.board, s[1], s[2])
  IN  std.moves \cup std.attacks

\* C15: with an enabled card that gives piece type P of colour C a move
\* offset d, calculateValidMoves for a P piece of colour C includes square + d
\* whenever that square is on the board and empty; once toggleCard has
\* disabled the card, square + d is a destination only if the standard
\* geometry or another enabled card gives it, and with no other enabled card
\* for P the destinations are exactly those of the standard geometry.
C15_CardMoveOffsetsApply ==
  \A c \in Colors : \A i \in 1..Len(game.abilityCards[c]) :
     LET card == game.abilityCards[c][i]
         off == toggleCard(game, c, card.name)
     IN  card.enabled # "false"
           => \A s \in Squares :
                 standsOn(game, s, c, card.pieceType)
                   => /\ \A d \in Range(card.moves) :
                           LET to == <<s[1] + d[1], s[2] + d[2]>>
                           IN  /\ (OnBoard(to[1], to[2]) /\ game.board[to] = NoPiece)
                                    => to \in calculateValidMoves(game.board, game.customMoves, s[1], s[2]).moves
                               /\ (d \notin enabledMoveOffsets(off, c, card.pieceType)
                                     /\ to \notin standardDestinations(off, s))
                                    => to \notin destinations(off, s)
                      /\ enabledCards(off, c, card.pieceType) = {}
                           => destinations(off, s) = standardDestinations(off, s)

\* the white pawn on b7 has an enabled card giving it the move offset (1, -1),
\* c8 is empty, and c8 is not among its moves
C15_Diverged ==
  /\ standsOn(game, <<1, 1>>, "white", "pawn")
  /\ <<1, -1>> \in enabledMoveOffsets(game, "white", "pawn")
  /\ game.board[<<2, 0>>] = NoPiece
  /\ <<2, 0>> \notin calculateValidMoves(game.board, game.customMoves, 1, 1).moves

\* C16: calculateValidMoves never reclassifies an offset: every square in
\* validMoves is unoccupied and every square in validAttacks holds a piece
\* of the opposite colour; a custom move offset that lands on an enemy piece
\* adds nothing to validAttacks, a custom attack offset that lands on an
\* empty square adds nothing to validMoves, and no destination holds a piece
\* of the mover's own colour.
C16_NoReclassification ==
  \A s \in Squares :
     game.board[s] # NoPiece
       => LET piece == game.board[s]
              cv == calculateValidMoves(game.board, game.customMoves, s[1], s[2])
              std == standardValid(game.board, s[1], s[2])
              tab == tableSets(game, piece.color, piece.type)
              at(offsets) == {<<s[1] + d[1], s[2] + d[2]>> : d \in offsets}
          IN  /\ \A m \in cv.moves : Get(game.board, m[1], m[2]) = NoPiece
              /\ \A a \in cv.attacks :
                    /\ OnBoard(a[1], a[2])
                    /\ game.board[a] # NoPiece
                    /\ game.board[a].color = Other(piece.color)
              /\ cv.attacks \subseteq std.attacks \cup at(tab.attacks)
              /\ cv.moves \subseteq std.moves \cup at(tab.moves)
              /\ \A t \in cv.moves \cup cv.attacks : Get(game.board, t[1], t[2]).color # piece.color

\* the white king on h6 has the card move offset (0, -2), which lands on the
\* black king on h8, and h8 is neither a move nor an attack of the white king
C16_Witness ==
  LET cv == calculateValidMoves(game.board, game.customMoves, 7, 2)
  IN  /\ standsOn(game, <<7, 2>>, "white", "king")
      /\ standsOn(game, <<7, 0>>, "black", "king")
      /\ <<0, -2>> \in tableSets(game, "white", "king").moves
      /\ <<7, 0>> \notin cv.moves \cup cv.attacks

\* the directions of the rays of a sliding piece
slidingDirs(type) ==
  CASE type = "rook" -> rookDirs
    [] type = "bishop" -> bishopDirs
    [] type = "queen" -> queenDirs
    [] OTHER -> {}

\* the k-th square from s in direction d
rayCell(s, d, k) == <<s[1] + d[1] * k, s[2] + d[2] * k>>

\* the squares of the board on the ray from s in direction d
rayCells(s, d) == {rayCell(s, d, k) : k \in {j \in 1..7 : OnBoard(s[1] + d[1] * j, s[2] + d[2] * j)}}

\* the number of steps to the first occupied square of the ray, 8 if none
firstBlocker(b, s, d) ==
  LET hits == {k \in 1..7 : rayCell(s, d, k) \in rayCells(s, d) /\ b[rayCell(s, d, k)] # NoPiece}
  IN  IF hits = {} THEN 8 ELSE CHOOSE k \in hits : \A j \in hits : k <= j

\* what the ray must contain: the empty squares before the first occupied
\* square, and that square when it holds a piece of the other colour
rayMoves(b, s, d) == {rayCell(s, d, k) : k \in 1..(firstBlocker(b, s, d) - 1)} \cap rayCells(s, d)
rayAttacks(b, s, d) ==
  LET k == firstBlocker(b, s, d)
  IN  IF k < 8 /\ b[rayCell(s, d, k)].color # b[s].color THEN {rayCell(s, d, k)} ELSE {}

C18_DestinationsOnBoard ==
  \A s \in Squares :
     game.board[s] # NoPiece
       => \A t \in destinations(game, s) \cup standardDestinations(game, s) : OnBoard(t[1], t[2])

\* the pawn waiting on rank 0 for its promotion has been selected and its
\* validMoves hold a square of rank -1
C18_Diverged ==
  /\ game.selectedPiece # NoSquare
  /\ game.selectedPiece[2] = 0
  /\ game.board[game.selectedPiece].type = "pawn"
  /\ <<game.selectedPiece[1], -1>> \in game.validMoves

\* the step is one run of the interval callback
tickStep ==
  /\ game.activeIntervals > 0
  /\ moves' = moves
  /\ game' = tick(game)

\* C19: at most one countdown interval is active at any time; each tick
\* decrements only the clock of the side to move, by exactly one when it is
\* above zero, and leaves the other clock unchanged; from non-negative
\* values no clock ever becomes negative.
C19_OneIntervalExactTicks ==
  [][/\ game.activeIntervals <= 1
     /\ game'.activeIntervals <= 1
     /\ \A c \in Colors : game.timers[c] >= 0 /\ game'.timers[c] >= 0
     /\ tickStep
          => LET cur == game.currentPlayer
             IN  /\ game'.timers[cur] = (IF game.timers[cur] > 0 THEN game.timers[cur] - 1 ELSE 0)
                 /\ game'.timers[Other(cur)] = game.timers[Other(cur)]]_vars

\* white has moved, black's clock has lost a second and white's has not, and
\* one interval is running
C19_Witness ==
  /\ game.currentPlayer = "black"
  /\ moves = 1
  /\ game.timers.black = MaxClock - 1
  /\ game.timers.white = MaxClock
  /\ game.activeIntervals = 1
  /\ game.timerInterval

\* C20: when a tick brings the clock of the side to move to zero, the
\* countdown is cancelled and the game is declared over in favour of the
\* other colour, whatever the position on the board.
C20_TimeoutEndsGame ==
  [][(game.timers[game.currentPlayer] = 1 /\ tickStep)
       => LET cur == game.currentPlayer
          IN  /\ game'.timers[cur] = 0
              /\ game'.activeIntervals = 0
              /\ ~game'.timerInterval
              /\ game'.gameOverModal
              /\ game'.gameOverMessage = [winner |-> winnerName(Other(cur)), reason |-> "time out"]
              /\ game'.board = game.board
              /\ game'.currentPlayer = cur]_vars

\* black's clock has run out after white's move: white is declared the
\* winner and no interval is left
C20_Witness ==
  /\ game.gameOverMessage = [winner |-> "white", reason |-> "time out"]
  /\ game.gameOverModal
  /\ game.timers.black = 0
  /\ game.timers.white > 0
  /\ game.activeIntervals = 0
  /\ game.currentPlayer = "black"

\* C22: in a local game requestUndo refuses the undo and changes no game
\* state: board, currentPlayer and moveHistory are the same after the call
\* as before it, for every length of moveHistory.
C22_LocalUndoChangesNothing ==
  game.isLocalGame
    => LET r == requestUndo(game)
       IN  /\ r.board = game.board
           /\ r.currentPlayer = game.currentPlayer
           /\ r.moveHistory = game.moveHistory

\* the last entry of the move list
lastEntry(g) == g.moveHistory[Len(g.moveHistory)]

\* C23: the board before a committed move is determined by the board after
\* it and the moveHistory entry recorded for it: a move from a start
\* position that leaves the same board and the same entry as the committed
\* move started from the same board.
C23_PreBoardDetermined ==
  [][\A s \in Squares :
        (plainCommit(game, s) /\ commitStep(s))
          => \A st \in StartStates :
                LET h == clicked(st, game.selectedPiece)
                IN  (plainCommit(h, s)
                       /\ clicked(h, s).board = game'.board
                       /\ lastEntry(clicked(h, s)) = lastEntry(game'))
                      => h.board = game.board]_vars

\* the rook stands on b1 after Ra1-b1 and the entry reads the same whether
\* it had moved before or not
C23_Diverged ==
  /\ game.lastMove = [from |-> <<0, 7>>, to |-> <<1, 7>>]
  /\ game.board[<<1, 7>>].moved
  /\ lastEntry(game).white = "Ra1-b1"
  /\ clicked(clicked(mateEndgame, <<0, 7>>), <<1, 7>>).board = game.board
  /\ clicked(clicked(shuffledEndgame, <<0, 7>>), <<1, 7>>).board = game.board
  /\ mateEndgame.board # shuffledEndgame.board

\* s is a destination of the selected piece
validDestination(g, s) == g.selectedPiece # NoSquare /\ s \in g.validMoves \cup g.validAttacks

\* s holds a piece of the side to move
ownPiece(g, s) == g.board[s] # NoPiece /\ g.board[s].color = g.currentPlayer

\* C24: in a local game with no promotion pending, a click that is neither
\* a valid destination of the selected piece nor a piece of the side to move
\* is rejected without state change: board and currentPlayer are unchanged
\* and the selection is cleared; only a piece whose colour equals
\* currentPlayer can become the selected piece.
C24_RejectedClicks ==
  (game.isLocalGame /\ game.pendingPromotion = NoPromotion)
    => \A s \in Squares :
          LET r == clicked(game, s)
          IN  /\ (~validDestination(game, s) /\ ~ownPiece(game, s))
                   => /\ r.board = game.board
                      /\ r.currentPlayer = game.currentPlayer
                      /\ selectionOf(r) = <<NoSquare, {}, {}>>
              /\ (r.selectedPiece # NoSquare /\ r.selectedPiece # game.selectedPiece)
                   => /\ r.selectedPiece = s
                      /\ game.board[s] # NoPiece
                      /\ game.board[s].color = game.currentPlayer

\* a piece is selected, and a click on an enemy piece it does not attack
\* clears the selection and leaves the board as it is
C24_Witness ==
  /\ game.isLocalGame
  /\ game.pendingPromotion = NoPromotion
  /\ game.selectedPiece # NoSquare
  /\ \E s \in Squares :
        /\ game.board[s] # NoPiece
        /\ game.board[s].color = Other(game.currentPlayer)
        /\ ~validDestination(game, s)
        /\ clicked(game, s).selectedPiece = NoSquare
        /\ clicked(game, s).board = game.board

\* the game is over and no new game has been started
ended(g) == g.gameOverModal /\ ~g.timerInterval

\* C25: terminal states are absorbing in a local game: once the game has
\* ended, no later board click changes a board cell, currentPlayer or
\* moveHistory until a new game is started; in particular a game that ended
\* by timeout is not afterwards declared a checkmate.
C25_TerminalAbsorbing ==
  [][(ended(game) /\ game.isLocalGame /\ \E s \in Squares : game' = clicked(game, s))
       => /\ game'.board = game.board
          /\ game'.currentPlayer = game.currentPlayer
          /\ game'.moveHistory = game.moveHistory
          /\ game'.gameOverMessage = game.gameOverMessage]_vars

\* white's clock has run out, and the game is declared a checkmate by white
C25_Diverged ==
  /\ game.timers.white = 0
  /\ game.gameOverMessage = [winner |-> "white", reason |-> "checkmate"]
  /\ isCheckmate(game.board, "black")

\* C26: after selectPromotion has passed the turn, check, checkmate and
\* stalemate are computed for the side that is now to move: a promotion that
\* mates it ends the game with the promoting colour as winner, one that
\* stalemates it ends the game as a draw, one that checks it shows the check
\* status, and otherwise the game goes on.
C26_PromotionTestsOpponent ==
  [][\A t \in PromotionChoices :
        (game.pendingPromotion # NoPromotion /\ game' = selectPromotion(game, t))
          => LET opp == game'.currentPlayer
                 b == game'.board
             IN  /\ opp = Other(game.pendingPromotion.color)
                 /\ isCheckmate(b, opp)
                      => /\ game'.gameOverModal
                         /\ game'.gameOverMessage =
                              [winner |-> winnerName(game.pendingPromotion.color), reason |-> "checkmate"]
                 /\ isStalemate(b, opp)
                      => /\ game'.gameOverModal
                         /\ game'.gameOverMessage = [winner |-> "draw", reason |-> "stalemate"]
                 /\ (isInCheck(b, opp) /\ hasValidMoves(b, opp)) => game'.status = "check"
                 /\ (~isInCheck(b, opp) /\ hasValidMoves(b, opp))
                      => game'.status = "local game" /\ game'.gameOverModal = game.gameOverModal]_vars

\* the pawn has become a queen on b8 that checks the black king on e5, black
\* is to move and the status line does not show the check
C26_Diverged ==
  /\ game.pendingPromotion = NoPromotion
  /\ standsOn(game, <<1, 0>>, "white", "queen")
  /\ game.currentPlayer = "black"
  /\ isInCheck(game.board, "black")
  /\ game.status = "local game"
  /\ ~game.gameOverModal

\* C21: the delay before the n-th consecutive reconnect attempt (n >= 1) is
\* min(1000 * 2^(n-1), 30000) ms, and reconnectAttempts stays between 0 and
\* maxReconnectAttempts (10).
C21_BackoffDelay ==
  LET backoff == <<1000, 2000, 4000, 8000, 16000, 30000, 30000, 30000, 30000, 30000>>
  IN  /\ game.reconnectAttempts \in 0..maxReconnectAttempts
      /\ maxReconnectAttempts = Len(backoff)
      /\ \A n \in 1..maxReconnectAttempts : reconnectDelay(n) = backoff[n]
      /\ \A i \in DOMAIN game.reconnectTimers :
            /\ game.reconnectTimers[i].attempt \in 1..maxReconnectAttempts
            /\ game.reconnectTimers[i].delay = backoff[game.reconnectTimers[i].attempt]

\* a reconnect is scheduled: the first attempt, 1000 ms ahead
C21_Witness ==
  /\ game.isReconnecting
  /\ game.reconnectAttempts = 1
  /\ game.reconnectTimers = <<[attempt |-> 1, delay |-> 1000]>>

\* C27: when the connection is lost and every reconnect attempt fails, the
\* client keeps retrying and stops, showing that it is disconnected, only
\* once maxReconnectAttempts attempts have been made.  It has stopped when
\* disconnected is shown, every socket has had its close event and no
\* reconnect is scheduled.
C27_RetriesUntilExhausted ==
  (/\ game.status = "disconnected"
   /\ game.reconnectTimers = <<>>
   /\ \A i \in DOMAIN game.sockets : game.sockets[i] \in {"closed", "dropped"})
    => game.reconnectAttempts >= maxReconnectAttempts

\* the room connection was lost, the one reconnect attempt failed too, and
\* the client has stopped after that single attempt
C27_Diverged ==
  /\ game.status = "disconnected"
  /\ game.reconnectTimers = <<>>
  /\ game.sockets = <<"dropped", "dropped">>
  /\ game.reconnectAttempts = 1
  /\ game.isReconnecting

\* C28: the close event of a socket the client itself has replaced never
\* causes the newer socket to be closed: an open connection goes down only
\* by a network failure or when the user joins another room or leaves.
C28_OpenSocketStaysOpen ==
  [][(/\ game.ws # 0
      /\ game.sockets[game.ws] \in {"open", "ready"}
      /\ game'.sockets[game.ws] \notin {"open", "ready", "lost"})
       => \/ game' = toMenu(game)
          \/ game' = toMenu([game EXCEPT !.gameOverModal = FALSE])
          \/ game' = playAgain(game)
          \/ game' = joinRoom(game, "room")]_vars

\* play again has replaced the socket of the finished game by one to a new
\* room, which opened, and the client has closed that one too and is
\* connecting a third time without any step of the user
C28_Diverged ==
  /\ game.sockets = <<"closed", "closing", "connecting">>
  /\ game.roomId = "generated"
  /\ game.status = "connected"
  /\ game.screen = "game-screen"
  /\ ~game.gameOverModal

\* C29: in an online game every move message the client sends has its
\* destination among the moves and attacks the server reported for the
\* square sent as from; a reply computed for an earlier selection never
\* validates a move of the piece selected after it.
C29_MoveValidatedForItsSquare ==
  [][(game'.sent # game.sent /\ game'.sent.type = "move")
       => /\ game'.sent.from = game.reportedFor
          /\ game'.sent.to \in game.validMoves \cup game.validAttacks]_vars

\* the move b2-a3 has been sent while the moves held are those the server
\* reported for a2 and the request for b2 is still unanswered
C29_Diverged ==
  /\ game.sent = [type |-> "move", from |-> <<1, 6>>, to |-> <<0, 5>>]
  /\ game.reportedFor = <<0, 6>>
  /\ game.requests = <<<<1, 6>>>>
  /\ game.selectedPiece = <<1, 6>>

\* C30: while isLocalGame is true, board, currentPlayer, myColor and timers
\* change only through local clicks, promotion choices and clock ticks (or
\* the start of a new local game): no server message overwrites them.
C30_LocalStateIsLocal ==
  [][(/\ game.isLocalGame /\ game'.isLocalGame
      /\ <<game'.board, game'.currentPlayer, game'.myColor, game'.timers>>
           # <<game.board, game.currentPlayer, game.myColor, game.timers>>)
       => \/ \E s \in Squares : game' = clicked(game, s)
          \/ \E t \in PromotionChoices : game' = selectPromotion(game, t)
          \/ game' = tick(game)
          \/ game' = startLocalGame(game)
          \/ game' = playAgain(game)]_vars

\* a local game in which the server's init has made the player black
C30_Diverged ==
  /\ game.isLocalGame
  /\ game.myColor = "black"
  /\ game.status = "game started"
  /\ game.ws # 0 /\ game.sockets[game.ws] = "ready"

\* C31: when the user has left a room with one of the to-menu buttons (the
\* socket this.ws names has been closed by the client), no new room socket
\* is opened until the user joins a room again.
C31_NoReconnectAfterLeaving ==
  [][(/\ game.ws # 0
      /\ game.sockets[game.ws] \in {"closing", "closed"}
      /\ Len(game'.sockets) > Len(game.sockets))
       => \/ game' = joinRoom(game, "room")
          \/ game' = playAgain(game)]_vars

\* the user has left the room, the close event has scheduled a reconnect,
\* and the socket it has opened shows the game screen again
C31_Diverged ==
  /\ game.sockets = <<"closed", "open">>
  /\ game.reconnectTimers = <<>>
  /\ game.screen = "game-screen"
  /\ game.status = "connected"
  /\ ~game.isLocalGame

\* C32: once the game-over state has been entered (showGameOver ran), no
\* interval is left to tick and neither clock changes until a new game is
\* started.
C32_NoTickAfterGameOver ==
  [][ended(game)
       => /\ game.activeIntervals = 0
          /\ ended(game') => game'.timers = game.timers]_vars

\* a game that ended by checkmate with time left on the clock of the side
\* to move, and no interval running
C32_Witness ==
  /\ ended(game)
  /\ game.gameOverMessage.reason = "checkmate"
  /\ game.timers[game.currentPlayer] > 0
  /\ game.timers[game.currentPlayer] <= MaxClock
  /\ game.activeIntervals = 0

\* C35: each game records at most one result: once a local game has ended,
\* no click records a further result, whatever square is clicked.
C35_OneResultPerGame ==
  (game.isLocalGame /\ ended(game))
    => \A s \in Squares : clicked(game, s).stats.total = game.stats.total

\* the game has ended by king capture with its one result recorded, and a
\* second click on the king's square records another
C35_Diverged ==
  /\ game.isLocalGame /\ ended(game)
  /\ game.gameOverMessage.reason = "king captured"
  /\ game.stats.total = 1
  /\ \E s \in game.validAttacks :
        /\ game.board[s] # NoPiece /\ game.board[s].type = "king"
        /\ clicked(game, s).stats.total = 2

\* C36: in a local game no piece object occupies two cells, the number of
\* pieces on the board never increases, and it decreases only by one, at a
\* committed move whose destination held an enemy piece.
C36_PiecesConserved ==
  [][game.isLocalGame
       => LET occupied(b) == {s \in Squares : b[s] # NoPiece}
              sel == game.selectedPiece
          IN  /\ \A s, t \in occupied(game'.board) :
                    game'.board[s].id = game'.board[t].id => s = t
              /\ Cardinality(occupied(game'.board)) <= Cardinality(occupied(game.board))
              /\ Cardinality(occupied(game'.board)) < Cardinality(occupied(game.board))
                   => /\ Cardinality(occupied(game'.board)) = Cardinality(occupied(game.board)) - 1
                      /\ sel # NoSquare /\ game.board[sel] # NoPiece
                      /\ game'.board[sel] = NoPiece
                      /\ \E s \in occupied(game.board) :
                            /\ game.board[s].color # game.board[sel].color
                            /\ game'.board[s] # NoPiece
                            /\ game'.board[s].id = game.board[sel].id]_vars

\* the pawn that reached the far rank has vanished from its square while its
\* promotion is still pending
C36_Diverged ==
  /\ game.isLocalGame
  /\ game.pendingPromotion # NoPromotion
  /\ game.board[<<game.pendingPromotion.x, game.pendingPromotion.y>>] = NoPiece
  /\ game.board[game.pendingPromotion.from] = NoPiece
  /\ game.pendingPromotion.captured = NoPiece

\* C37: saveCard keeps every offset that customMoves[color][pieceType] held
\* and adds the offsets of the new card, and after any saveCard, toggleCard,
\* deleteCard or resetCustomMoves no moves list and no attacks list of
\* customMoves holds the same offset twice
C37_OffsetsUnitedOnce ==
  [][LET distinct(list) == \A i, j \in 1..Len(list) : list[i] = list[j] => i = j
         held(g, c, t) == IF t \in DOMAIN g.customMoves[c] THEN g.customMoves[c][t]
                          ELSE [moves |-> <<>>, attacks |-> <<>>]
     IN  /\ \A c \in Colors : \A t \in DOMAIN game'.customMoves[c] :
              /\ distinct(game'.customMoves[c][t].moves)
              /\ distinct(game'.customMoves[c][t].attacks)
         /\ \A card \in RegistryMenu :
              game' = saveCard(game, card.color, card.name, card.pieceType, card.moves, card.attacks)
                => /\ Range(held(game, card.color, card.pieceType).moves) \cup Range(card.moves)
                        = Range(held(game', card.color, card.pieceType).moves)
                   /\ Range(held(game, card.color, card.pieceType).attacks) \cup Range(card.attacks)
                        = Range(held(game', card.color, card.pieceType).attacks)]_vars

\* the cards "spear" and "lance" are both saved, their shared offset (1, -1)
\* is in the white pawn's list next to the lance's own (0, 3)
C37_Witness ==
  /\ cardIndex(game.abilityCards["white"], "spear") # 0
  /\ cardIndex(game.abilityCards["white"], "lance") # 0
  /\ "pawn" \in DOMAIN game.customMoves["white"]
  /\ game.customMoves["white"]["pawn"].moves = <<<<1, -1>>, <<0, 3>>>>

\* C39: whatever reason a game_over message carries (resign, draw, timeout,
\* checkmate, stalemate), the client that receives it in a running online
\* game stops the countdown and shows the game-over dialog
C39_EveryReasonEndsGame ==
  (/\ ~game.isLocalGame
   /\ game.ws # 0 /\ game.sockets[game.ws] = "ready"
   /\ ~game.gameOverModal)
    => \A r \in {"resign", "draw", "timeout", "checkmate", "stalemate"} : \A w \in Colors :
          ended(handleServerMessage(game, [type |-> "game_over", reason |-> r, winner |-> w]))

\* a running online game with the countdown active that a game_over message
\* with reason timeout leaves running
C39_Diverged ==
  /\ ~game.isLocalGame
  /\ game.ws # 0 /\ game.sockets[game.ws] = "ready"
  /\ game.timerInterval /\ ~game.gameOverModal
  /\ LET g2 == handleServerMessage(game, [type |-> "game_over", reason |-> "timeout", winner |-> "white"])
     IN  g2.timerInterval /\ ~g2.gameOverModal

\* C38: the rule queries leave the board as they found it: on every board
\* whose pieces stand inside 0..7 with no pawn on rank 0 or 7, every cell
\* holds the same piece (colour, type, moved flag) after filterMovesInCheck
\* for any selected piece and after hasValidMoves, isCheckmate and
\* isStalemate for either colour (isInCheck writes nothing)
C38_QueriesLeaveBoard ==
  (\A s \in Squares : game.board[s] # NoPiece /\ game.board[s].type = "pawn" => s[2] \in 1..6)
    => /\ \A s \in Squares :
            game.board[s] # NoPiece
              => boardAfterFilter(game.board, s,
                                  calculateValidMoves(game.board, game.customMoves, s[1], s[2]))
                   = game.board
       /\ \A c \in Colors : boardAfterHasValidMoves(game.board, c, 0) = game.board

\* a board with no pawn on an edge rank on which a piece is selected whose
\* candidate targets were simulated, a capture among them (the captured
\* piece was overwritten and written back)
C38_Witness ==
  /\ \A s \in Squares : game.board[s] # NoPiece /\ game.board[s].type = "pawn" => s[2] \in 1..6
  /\ game.selectedPiece # NoSquare
  /\ game.board[game.selectedPiece] # NoPiece
  /\ LET sel == game.selectedPiece
         cand == calculateValidMoves(game.board, game.customMoves, sel[1], sel[2])
         kept == filterMovesInCheck(game.board, sel, cand)
     IN  /\ game.validMoves = kept.moves /\ game.validAttacks = kept.attacks
         /\ kept.attacks # {}

\* C34: in a v2.5 local game no move committed by handleLocalClick leaves
\* the mover's own king attacked on the resulting board, and no committed
\* move takes a king off the board while the game goes on
C34_V25MovesAreLegal ==
  [][game'.lastMove # game.lastMove
       => /\ ~isInCheck(game'.board, game.currentPlayer)
          /\ \A c \in Colors :
                (\E s \in Squares : game.board[s] # NoPiece /\ game.board[s].type = "king"
                                       /\ game.board[s].color = c)
                  => (\E s \in Squares : game'.board[s] # NoPiece /\ game'.board[s].type = "king"
                                           /\ game'.board[s].color = c)]_vars

\* a king has been taken and the game goes on: no dialog, the side without
\* a king is to move
C34_Diverged ==
  /\ ~game.gameOverModal
  /\ game.lastMove # NoMove
  /\ \A s \in Squares : ~(game.board[s] # NoPiece /\ game.board[s].type = "king"
                             /\ game.board[s].color = game.currentPlayer)

\* C40: the client holds at most one matchmaking connection that it has not
\* closed, a match_found that arrives while the menu is shown opens no room
\* socket and joins no room, and one match_found opens at most one room
\* socket
C40_OneQueueConnection ==
  [][LET held(g) == {i \in 1..Len(g.matchmakingSockets) :
                       g.matchmakingSockets[i] \in {"queued", "matched"}}
         arrived == \E i \in 1..Len(game.matchmakingSockets) :
                       /\ game.matchmakingSockets[i] = "queued"
                       /\ game' = matchFound([game EXCEPT !.matchmakingSockets[i] = "matched"], "matched")
     IN  /\ Cardinality(held(game')) <= 1
         /\ arrived => Len(game'.sockets) <= Len(game.sockets) + 1
         /\ (arrived /\ game.screen = "main-menu")
               => (Len(game'.sockets) = Len(game.sockets) /\ game'.roomId = game.roomId)]_vars

\* the menu is shown, the room of a match that arrived there is being
\* joined, and a queue connection made earlier is still held
C40_Diverged ==
  /\ game.screen = "main-menu"
  /\ game.roomId = "matched"
  /\ game.ws # 0 /\ game.sockets[game.ws] = "connecting"
  /\ \E i \in 1..Len(game.matchmakingSockets) : game.matchmakingSockets[i] = "matched"

\* C33: in an online game the board and the side to move change only by an
\* init or move message and equal the server's values after it; init
\* replaces board, side to move, custom moves, ability cards and timers with
\* the server's values; a move message clears the selection
C33_BoardFollowsServer ==
  [][/\ (/\ ~game.isLocalGame /\ ~game'.isLocalGame
          /\ (game'.board # game.board \/ game'.currentPlayer # game.currentPlayer))
        => /\ game'.ws # 0 /\ game'.sockets[game'.ws] = "ready"
           /\ game'.board = game'.room.board
           /\ game'.currentPlayer = game'.room.current_player
     /\ (/\ game.ws # 0 /\ game'.ws = game.ws
         /\ game.sockets[game.ws] = "open" /\ game'.sockets[game.ws] = "ready")
        => /\ game'.board = game.room.board
           /\ game'.currentPlayer = game.room.current_player
           /\ game'.customMoves = emptyCustomMoves
           /\ game'.abilityCards = emptyAbilityCards
           /\ game'.timers = [white |-> 600, black |-> 600]
     /\ (game'.room # game.room /\ game'.roomId = game.roomId)
        => /\ game'.selectedPiece = NoSquare
           /\ game'.validMoves = {} /\ game'.validAttacks = {}
           /\ game'.board = game'.room.board
           /\ game'.currentPlayer = game'.room.current_player]_vars

\* an online game after its init message in which the side to move is not
\* the one the server named
C33_Diverged ==
  /\ ~game.isLocalGame
  /\ game.ws # 0 /\ game.sockets[game.ws] = "ready"
  /\ game.board = game.room.board
  /\ game.currentPlayer # game.room.current_player
====
